---- MODULE Spec2Model ----
(***************************************************************************)
(* Auto-Report: the normalization-and-statistics pipeline of               *)
(* src/data_pipeline.  Tables are sequences of row records with a set of   *)
(* column names; a Python dict is a record, a Python list a sequence.      *)
(* Quotients are kept exact as fractions [n, d]; d = 0 stands for the      *)
(* float NaN.  An exception leaving a function is the field raised.        *)
(***************************************************************************)
EXTENDS Integers, Sequences, FiniteSets, TLC

VARIABLES
    df,             \* the canonical listing table handed to a StatisticsEngine function
    out,            \* what the last StatisticsEngine call returned (or that it raised)
    amazon_df,      \* compute_market_statistics: the Amazon table, <<>> for None
    tiktok_df,      \* compute_market_statistics: the TikTok table, <<>> for None
    statistics,     \* what compute_market_statistics returned (or that it raised)
    raw_df,         \* the uploaded table handed to a normalizer
    normalized,     \* what the last normalizer call returned (or that it raised)
    voc_comments_df, \* the combined comment table, <<>> for None
    voc_reviews_df, \* the combined review table, <<>> for None
    voc_stats,      \* what the last VOC statistics call returned (or that it raised)
    raw_text,       \* the string handed to a text cleaner
    cleaned_text    \* what the last text cleaner call returned

statsVars == <<df, out>>
marketVars == <<amazon_df, tiktok_df, statistics>>
normVars == <<raw_df, normalized>>
vocVars == <<voc_comments_df, voc_reviews_df, voc_stats>>
textVars == <<raw_text, cleaned_text>>
vars == <<df, out, amazon_df, tiktok_df, statistics, raw_df, normalized,
          voc_comments_df, voc_reviews_df, voc_stats, raw_text, cleaned_text>>
\* the variables a call of one group leaves alone
notStatsVars == <<marketVars, normVars, vocVars, textVars>>
notMarketVars == <<statsVars, normVars, vocVars, textVars>>
notNormVars == <<statsVars, marketVars, vocVars, textVars>>
notVocVars == <<statsVars, marketVars, normVars, textVars>>
notTextVars == <<statsVars, marketVars, normVars, vocVars>>

(***************************************************************************)
(* Bounds of the model                                                     *)
(***************************************************************************)
MaxRows == 3
MaxMarketRows == 2
MaxRawRows == 2
MaxCommentRows == 2
MaxReviewRows == 2
PriceValues == {0, 1, 3}
SalesValues == {0, 2}
LongLens == {11, 21}
LongSales == {0, 1, 3}

(***************************************************************************)
(* Strings (Python str): a string is the sequence of its characters        *)
(***************************************************************************)
LowerOf ==
    "A" :> "a" @@ "B" :> "b" @@ "C" :> "c" @@ "D" :> "d" @@ "E" :> "e" @@ "F" :>
    "f" @@ "G" :> "g" @@ "H" :> "h" @@ "I" :> "i" @@ "J" :> "j" @@ "K" :> "k" @@
    "L" :> "l" @@ "M" :> "m" @@ "N" :> "n" @@ "O" :> "o" @@ "P" :> "p" @@ "Q" :>
    "q" @@ "R" :> "r" @@ "S" :> "s" @@ "T" :> "t" @@ "U" :> "u" @@ "V" :> "v" @@
    "W" :> "w" @@ "X" :> "x" @@ "Y" :> "y" @@ "Z" :> "z"

Digits == {"0", "1", "2", "3", "4", "5", "6", "7", "8", "9"}
Whitespace == {" "}

CharAt(s, i) == SubSeq(s, i, i)

\* str.lower(): character by character, the text taken by halves
RECURSIVE lower(_)
lower(s) ==
    IF s = "" THEN ""
    ELSE IF Len(s) = 1 THEN (IF s \in DOMAIN LowerOf THEN LowerOf[s] ELSE s)
    ELSE lower(SubSeq(s, 1, Len(s) \div 2)) \o lower(SubSeq(s, Len(s) \div 2 + 1, Len(s)))

\* s[i:].startswith(kw), positions from 1
StartsAt(s, i, kw) == i + Len(kw) - 1 <= Len(s) /\ SubSeq(s, i, i + Len(kw) - 1) = kw

\* kw in s
Contains(s, kw) == \E i \in 1..(Len(s) + 1) : StartsAt(s, i, kw)

\* any(kw in s for kw in kws)
ContainsAny(s, kws) == \E j \in DOMAIN kws : Contains(s, kws[j])

(***************************************************************************)
(* Numbers                                                                 *)
(***************************************************************************)
RECURSIVE GCD(_, _)
GCD(a, b) == IF b = 0 THEN a ELSE GCD(b, a % b)

Abs(x) == IF x < 0 THEN -x ELSE x

NaN == [n |-> 0, d |-> 0]

\* the float n / d of two numpy numbers; 0 / 0 is NaN
Frac(n, d) ==
    IF d = 0 THEN NaN
    ELSE LET g == GCD(Abs(n), Abs(d))
             s == IF d < 0 THEN -1 ELSE 1
         IN  [n |-> (s * n) \div g, d |-> (s * d) \div g]

IsNaN(r) == r.d = 0
FLe(a, b) == ~IsNaN(a) /\ ~IsNaN(b) /\ a.n * b.d <= b.n * a.d
FLt(a, b) == ~IsNaN(a) /\ ~IsNaN(b) /\ a.n * b.d < b.n * a.d
Zero == Frac(0, 1)
One == Frac(1, 1)

(***************************************************************************)
(* Series helpers (pandas)                                                 *)
(***************************************************************************)
\* Series.sum(): the series is added up by halves
RECURSIVE SumSeq(_)
SumSeq(s) ==
    IF s = <<>> THEN 0
    ELSE IF Len(s) = 1 THEN s[1]
    ELSE SumSeq(SubSeq(s, 1, Len(s) \div 2)) + SumSeq(SubSeq(s, Len(s) \div 2 + 1, Len(s)))

SeqMin(s) == CHOOSE x \in {s[i] : i \in DOMAIN s} : \A j \in DOMAIN s : x <= s[j]
SeqMax(s) == CHOOSE x \in {s[i] : i \in DOMAIN s} : \A j \in DOMAIN s : x >= s[j]

\* Series.mean(): NaN for an empty series
Mean(s) == Frac(SumSeq(s), Len(s))

\* sort_values(ascending=False) of a numeric series: position k holds the
\* value that fewer than k values exceed and at least k values reach
SortDesc(s) ==
    IF s = <<>> THEN <<>>
    ELSE [k \in 1..Len(s) |->
             CHOOSE x \in {s[i] : i \in DOMAIN s} :
                 /\ Cardinality({j \in DOMAIN s : s[j] > x}) < k
                 /\ k <= Cardinality({j \in DOMAIN s : s[j] >= x})]

\* sorted ascending
Reverse(s) == [i \in 1..Len(s) |-> s[Len(s) + 1 - i]]
SortAsc(s) == Reverse(SortDesc(s))

\* DataFrame.head(n) / Series.head(n)
head(s, n) == SubSeq(s, 1, IF Len(s) < n THEN Len(s) ELSE n)

Column(t, c) == [i \in 1..Len(t.rows) |-> t.rows[i][c]]

\* DataFrame.empty: some axis has length 0
DfEmpty(t) == t.rows = <<>> \/ t.cols = {}

EmptyDict == [k \in {} |-> 0]

(***************************************************************************)
(* Canonical listing tables                                                *)
(***************************************************************************)
\* the columns clean_amazon_sales / clean_tiktok_sales always produce
BaseCols == {"product_id", "platform"}
\* the columns they produce when the source column resolves
OptionalCols == {"title", "price", "sales", "revenue", "rating", "reviews",
                 "seller", "days_since_launch"}
AllCols == BaseCols \cup OptionalCols

TitleOf(p) ==
    IF p = 0 THEN "Plain Wig"
    ELSE IF p = 1 THEN "Lace Front Wig 20 inch" ELSE "Glueless curly lace wig"

\* a canonical listing row: revenue is derived price * sales
MkRow(p, s) ==
    [price |-> p, sales |-> s, revenue |-> p * s, rating |-> 5 - (p % 4),
     reviews |-> s + 1, title |-> TitleOf(p),
     seller |-> IF s = 0 THEN "s1" ELSE "s2",
     days_since_launch |-> 45 * p]

ListingRows == {MkRow(p, s) : p \in PriceValues, s \in SalesValues}

RowSeqs(n) == UNION {[1..k -> ListingRows] : k \in 0..n}

\* n rows, the first k selling a units each and the others b
LongRowSeq(n, k, a, b) == [i \in 1..n |-> MkRow(i % 4, IF i <= k THEN a ELSE b)]

LongRowSeqs ==
    {LongRowSeq(n, k, a, b) : n \in LongLens, k \in {0, 1, 5, 10, 11}, a \in LongSales, b \in LongSales}

SampleRowSeqs == {<<>>, <<MkRow(1, 2)>>, <<MkRow(1, 2), MkRow(3, 0)>>, <<MkRow(0, 0), MkRow(0, 0)>>}

ListingTables ==
    {[cols |-> AllCols, rows |-> r] : r \in RowSeqs(MaxRows) \cup LongRowSeqs}
    \cup {[cols |-> BaseCols \cup c, rows |-> r] : c \in SUBSET OptionalCols, r \in SampleRowSeqs}

(***************************************************************************)
(* float64 arithmetic (numpy).  A natural number of any size is the        *)
(* sequence of its digits to the base 2^15, the most significant first; a  *)
(* float is m * 2^e with a mantissa m of 53 bits, or zero.                 *)
(***************************************************************************)
LimbBits == 15
LimbBase == 32768
\* the bits of a float64 mantissa
MantissaBits == 53

Trim(b) ==
    LET nz == {i \in DOMAIN b : b[i] # 0}
    IN  IF nz = {} THEN <<>> ELSE SubSeq(b, CHOOSE i \in nz : \A j \in nz : i <= j, Len(b))

Zeros(k) == IF k <= 0 THEN <<>> ELSE [i \in 1..k |-> 0]

Front(b) == SubSeq(b, 1, Len(b) - 1)

RECURSIVE BigOfInt(_)
BigOfInt(n) == IF n = 0 THEN <<>> ELSE BigOfInt(n \div LimbBase) \o <<n % LimbBase>>

\* a < b digit by digit, for a and b of one length
LexLt(a, b) == \E i \in DOMAIN a : a[i] < b[i] /\ \A j \in 1..(i - 1) : a[j] = b[j]

\* a < b, for a and b without leading zeros
BigLt(a, b) == Len(a) < Len(b) \/ (Len(a) = Len(b) /\ LexLt(a, b))

\* whether the digits after position i of a + b + c carry into position i:
\* a position further on overflows, and every position between passes a carry on
CarryInto(a, b, c, i) ==
    \/ \E j \in (i + 1)..Len(a) :
           /\ a[j] + b[j] >= LimbBase
           /\ \A k \in (i + 1)..(j - 1) : a[k] + b[k] = LimbBase - 1
    \/ c = 1 /\ \A k \in (i + 1)..Len(a) : a[k] + b[k] = LimbBase - 1

\* whether the digits after position i of a - b - c borrow from position i
BorrowFrom(a, b, c, i) ==
    \/ \E j \in (i + 1)..Len(a) :
           /\ a[j] < b[j]
           /\ \A k \in (i + 1)..(j - 1) : a[k] = b[k]
    \/ c = 1 /\ \A k \in (i + 1)..Len(a) : a[k] = b[k]

\* a + b + c and a - b - c, for a and b of one length and c the carry
AddCarry(a, b, c) ==
    IF a = <<>> THEN (IF c = 1 THEN <<1>> ELSE <<>>)
    ELSE (IF CarryInto(a, b, c, 0) THEN <<1>> ELSE <<>>)
         \o [i \in DOMAIN a |->
                (a[i] + b[i] + (IF CarryInto(a, b, c, i) THEN 1 ELSE 0)) % LimbBase]

SubBorrow(a, b, c) ==
    IF a = <<>> THEN <<>>
    ELSE [i \in DOMAIN a |->
             (a[i] - b[i] - (IF BorrowFrom(a, b, c, i) THEN 1 ELSE 0) + LimbBase) % LimbBase]

Padded(a, n) == Zeros(n - Len(a)) \o a

AddPadded(a, b, n) == Trim(AddCarry(Padded(a, n), Padded(b, n), 0))
SubPadded(a, b, n) == Trim(SubBorrow(Padded(a, n), Padded(b, n), 0))

BigAdd(a, b) == AddPadded(a, b, IF Len(a) < Len(b) THEN Len(b) ELSE Len(a))
\* a - b, for a >= b
BigSub(a, b) == SubPadded(a, b, Len(a))

\* a * s, for s <= 2^15: each product of a digit by s has a low and a high
\* digit, and the high digits are added one position up
MulSmall(a, s) ==
    IF a = <<>> THEN <<>>
    ELSE Trim(AddCarry(<<0>> \o [i \in DOMAIN a |-> (a[i] * s) % LimbBase],
                       [i \in DOMAIN a |-> (a[i] * s) \div LimbBase] \o <<0>>, 0))

\* the quotient q and the remainder r of a by s, for s a power of two below
\* 2^15: what a digit leaves is carried to the next digit
DivSmall(a, s) ==
    IF a = <<>> THEN [q |-> <<>>, r |-> 0]
    ELSE [q |-> Trim([i \in DOMAIN a |->
                         ((IF i = 1 THEN 0 ELSE a[i - 1] % s) * LimbBase + a[i]) \div s]),
          r |-> a[Len(a)] % s]

\* the number of bits of a, a > 0
BitLen(a) ==
    LimbBits * (Len(a) - 1) + CHOOSE i \in 1..LimbBits : 2^(i - 1) <= a[1] /\ a[1] < 2^i

\* a * 2^k
ShiftLeft(a, k) ==
    IF a = <<>> THEN <<>> ELSE MulSmall(a, 2^(k % LimbBits)) \o Zeros(k \div LimbBits)

\* a \div 2^k, and whether a bit that is 1 was lost
WithLost(dm, lost_digits) == [q |-> dm.q, lost |-> dm.r # 0 \/ lost_digits]
ShiftKept(a, kept, s) ==
    WithLost(DivSmall(kept, s), \E i \in (Len(kept) + 1)..Len(a) : a[i] # 0)
ShiftRight(a, k) == ShiftKept(a, SubSeq(a, 1, Len(a) - (k \div LimbBits)), 2^(k % LimbBits))

\* the largest digit d with d * v <= r, counting down from the estimate
RECURSIVE Fit(_, _, _)
Fit(r, v, d) == IF BigLt(r, MulSmall(v, d)) THEN Fit(r, v, d - 1) ELSE d

\* the digit of the quotient of r by v, for r < v * 2^15 and v with its top
\* bit in the top digit: estimated from the leading digits (Knuth, algorithm D)
Digit(r, v) ==
    IF BigLt(r, v) THEN 0
    ELSE LET lead == IF Len(r) > Len(v) THEN r[1] * LimbBase + r[2] ELSE r[1]
             estimate == lead \div v[1]
         IN  Fit(r, v, IF estimate < LimbBase THEN estimate ELSE LimbBase - 1)

\* long division of (rem, digits) by v: r is rem with the next digit, d the
\* digit of the quotient; the digits of the quotient, and after them 1 when
\* nothing remains and 0 otherwise
RECURSIVE DivStep(_, _, _)
DivDigit(digits, v, r, d) ==
    <<d>> \o DivStep(Tail(digits), v, IF d = 0 THEN r ELSE BigSub(r, MulSmall(v, d)))

DivStep(digits, v, rem) ==
    IF digits = <<>> THEN <<IF rem = <<>> THEN 1 ELSE 0>>
    ELSE DivDigit(digits, v, Trim(rem \o <<Head(digits)>>),
                  Digit(Trim(rem \o <<Head(digits)>>), v))

FloatZero == [m |-> <<>>, e |-> 0]

\* F(e) and F(e1, e2), the arguments computed before F is entered
Strict(F(_), e) == CHOOSE r \in {F(v) : v \in {e}} : TRUE
Strict2(F(_, _), e1, e2) == CHOOSE r \in {F(v, w) : v \in {e1}, w \in {e2}} : TRUE

Divided(steps) == [q |-> Trim(Front(steps)), exact |-> steps[Len(steps)] = 1]

\* the division starts with the leading digits of the dividend that are
\* fewer than the digits of v: they give no digit of the quotient
DivFrom(digits, v) ==
    IF Len(digits) < Len(v) THEN [q |-> <<>>, exact |-> digits = <<>>]
    ELSE Divided(DivStep(SubSeq(digits, Len(v), Len(digits)), v, SubSeq(digits, 1, Len(v) - 1)))

\* the quotient of num by den, and whether the division leaves no remainder
DivNormal(num, den, up) == Strict2(DivFrom, ShiftLeft(num, up), ShiftLeft(den, up))
BigDivMod(num, den) ==
    IF den = <<1>> THEN [q |-> num, exact |-> TRUE]
    ELSE DivNormal(num, den, LimbBits * Len(den) - BitLen(den))

IsOdd(a) == a # <<>> /\ a[Len(a)] % 2 = 1

\* the mantissa of 53 bits again after rounding up
Renormal(mant, e) ==
    IF BitLen(mant) > MantissaBits THEN [m |-> DivSmall(mant, 2).q, e |-> e + 1]
    ELSE [m |-> mant, e |-> e]

\* round to nearest, ties to the even mantissa
Halved(half, guard, sticky, e) ==
    Renormal(IF guard /\ (sticky \/ IsOdd(half)) THEN BigAdd(half, <<1>>) ELSE half, e)

Dropped(sh, exact, e) ==
    Strict(LAMBDA half : Halved(half, IsOdd(sh.q), sh.lost \/ ~exact, e), DivSmall(sh.q, 2).q)

Quotient(dm, e) ==
    Strict(LAMBDA sh : Dropped(sh, dm.exact, e + BitLen(dm.q) - MantissaBits),
           ShiftRight(dm.q, BitLen(dm.q) - MantissaBits - 1))

Scaled(num, den, e, k) ==
    Strict(LAMBDA dm : Quotient(dm, e - k), Strict(LAMBDA up : BigDivMod(up, den), ShiftLeft(num, k)))

\* the float64 nearest to (num / den) * 2^e
RoundRatio(num, den, e) ==
    IF num = <<>> THEN FloatZero
    ELSE Scaled(num, den, e,
                IF MantissaBits + 2 + BitLen(den) > BitLen(num)
                THEN MantissaBits + 2 + BitLen(den) - BitLen(num) ELSE 0)

\* the float64 of the number n / d, n >= 0
float64(x) == RoundRatio(BigOfInt(x.n), BigOfInt(x.d), 0)

\* the mantissa of v at the exponent to <= v.e
Aligned(v, to) == ShiftLeft(v.m, v.e - to)

AddAt(x1, x2, to) ==
    Strict(LAMBDA total : RoundRatio(total, <<1>>, to),
           Strict2(BigAdd, Aligned(x1, to), Aligned(x2, to)))

float_add(x1, x2) ==
    IF x1.m = <<>> THEN x2
    ELSE IF x2.m = <<>> THEN x1
    ELSE AddAt(x1, x2, IF x1.e < x2.e THEN x1.e ELSE x2.e)

\* x1 / x2, x2 # 0
float_div(x1, x2) == RoundRatio(x1.m, x2.m, x1.e - x2.e)

LtAt(x1, x2, to) == Strict2(BigLt, Aligned(x1, to), Aligned(x2, to))

float_lt(x1, x2) ==
    IF x1.m = <<>> THEN x2.m # <<>>
    ELSE IF x2.m = <<>> THEN FALSE
    ELSE LtAt(x1, x2, IF x1.e < x2.e THEN x1.e ELSE x2.e)

\* Series.sum() of floats: one after the other, from 0.0
RECURSIVE float_sum_from(_, _)
float_sum_from(acc, s) ==
    IF s = <<>> THEN acc
    ELSE Strict(LAMBDA a : float_sum_from(a, Tail(s)), float_add(acc, Head(s)))

float_sum(s) == float_sum_from(FloatZero, s)

\* sort_values(ascending=False) of a series of floats: position k holds the
\* value that fewer than k values exceed and at least k values reach
FloatSortDesc(s) ==
    IF s = <<>> THEN <<>>
    ELSE [k \in 1..Len(s) |->
             CHOOSE x1 \in {s[i] : i \in DOMAIN s} :
                 /\ Cardinality({j \in DOMAIN s : float_lt(x1, s[j])}) < k
                 /\ k <= Cardinality({j \in DOMAIN s : ~float_lt(s[j], x1)})]

(***************************************************************************)
(* StatisticsEngine: src/data_pipeline/market_statistics.py                *)
(***************************************************************************)
Returned(v) == [raised |-> FALSE, val |-> v]
Raised(e) == [raised |-> TRUE, val |-> e]

TopProducts1 == 10
TopProducts2 == 20
TopSellers == 10

share_unguarded(part, total_sales) == Frac(part, total_sales)

\* float(part / total_sales) if total_sales > 0 else 0
share(part, total_sales) == IF total_sales > 0 THEN Frac(part, total_sales) ELSE Zero

\* df.groupby(seller_col)['sales'].sum(): one sum per seller, as a sequence
SellerSales(t, seller_col) ==
    LET sellers == {t.rows[i][seller_col] : i \in DOMAIN t.rows}
        total(x) == SumSeq(Column([cols |-> t.cols,
                                   rows |-> SelectSeq(t.rows, LAMBDA r : r[seller_col] = x)], "sales"))
        RECURSIVE Sums(_)
        Sums(S) == IF S = {} THEN <<>>
                   ELSE LET x == CHOOSE y \in S : TRUE
                        IN  <<total(x)>> \o Sums(S \ {x})
    IN  Sums(sellers)

seller_col(t) ==
    IF "seller" \in t.cols THEN "seller" ELSE IF "shop" \in t.cols THEN "shop" ELSE "none"

\* compute_competition_metrics on a table whose sales are floats that are not
\* whole, and which has no seller or shop column: every sum, quotient and
\* comparison is the float64 one
float_share(part, total_sales) ==
    IF total_sales.m # <<>> THEN float_div(part, total_sales) ELSE FloatZero

\* len(df[df['sales'] < avg_sales]) / len(df)
long_tail_index(sales, avg_sales) ==
    Frac(Cardinality({i \in DOMAIN sales : float_lt(sales[i], avg_sales)}), Len(sales))

float_metrics(sales, df_sorted, total_sales) ==
    [top10_share |->
         Strict(LAMBDA part : float_share(part, total_sales), float_sum(head(df_sorted, TopProducts1))),
     top20_share |->
         Strict(LAMBDA part : float_share(part, total_sales), float_sum(head(df_sorted, TopProducts2))),
     long_tail_index |->
         Strict(LAMBDA avg_sales : long_tail_index(sales, avg_sales),
                Strict(LAMBDA n : float_div(total_sales, n), float64(Frac(Len(sales), 1))))]

float_sales_metrics(sales) ==
    Strict2(LAMBDA df_sorted, total_sales : float_metrics(sales, df_sorted, total_sales),
            FloatSortDesc(sales), float_sum(sales))

FloatColumn(rows, c) ==
    IF rows = <<>> THEN <<>> ELSE [i \in DOMAIN rows |-> float64(rows[i][c])]

competition_metrics_of_floats(t) == Strict(float_sales_metrics, FloatColumn(t.rows, "sales"))

compute_competition_metrics(t) ==
    IF DfEmpty(t) \/ "sales" \notin t.cols THEN EmptyDict
    ELSE IF "floats" \in DOMAIN t /\ "sales" \in t.floats /\ seller_col(t) = "none"
    THEN competition_metrics_of_floats(t)
    ELSE LET sales == Column(t, "sales")
             df_sorted == SortDesc(sales)
             total_sales == SumSeq(sales)
             top10_sales == SumSeq(head(df_sorted, TopProducts1))
             top20_sales == SumSeq(head(df_sorted, TopProducts2))
             seller_sales == SortDesc(SellerSales(t, seller_col(t)))
             top_sellers == head(seller_sales, TopSellers)
             \* sales < avg_sales, with avg_sales = total_sales / len(df)
             long_tail_count == Cardinality({i \in DOMAIN sales : sales[i] * Len(sales) < total_sales})
         IN  IF seller_col(t) = "none"
             THEN [top10_share |-> share(top10_sales, total_sales),
                   top20_share |-> share(top20_sales, total_sales),
                   long_tail_index |-> Frac(long_tail_count, Len(sales))]
             ELSE [top10_share |-> share(top10_sales, total_sales),
                   top20_share |-> share(top20_sales, total_sales),
                   long_tail_index |-> Frac(long_tail_count, Len(sales)),
                   top10_seller_share |-> share(SumSeq(top_sellers), total_sales),
                   unique_sellers |-> Len(seller_sales),
                   avg_sales_per_seller |-> Mean(seller_sales)]

(***************************************************************************)
(* pd.qcut(x, q, labels=False, duplicates='drop')                          *)
(* Bin edges are kept multiplied by q, so that they stay integers.         *)
(***************************************************************************)
num_bands == 5

\* q * Series.quantile(k / q), linear interpolation between order statistics
QuantileEdge(sorted, q, k) ==
    LET pos == (Len(sorted) - 1) * k
        lo == pos \div q
        r == pos % q
    IN  IF r = 0 THEN q * sorted[lo + 1]
        ELSE q * sorted[lo + 1] + r * (sorted[lo + 2] - sorted[lo + 1])

\* algos.unique(bins) of a non-decreasing sequence: first occurrences, in order
RECURSIVE Unique(_)
Unique(s) ==
    IF Len(s) <= 1 THEN s
    ELSE IF s[1] = s[2] THEN Unique(Tail(s))
    ELSE <<s[1]>> \o Unique(Tail(s))

qcut_bins(x, q) ==
    LET sorted == SortAsc(x)
        bins == [k \in 1..(q + 1) |-> QuantileEdge(sorted, q, k - 1)]
        unique_bins == Unique(bins)
    IN  IF Len(unique_bins) < Len(bins) /\ Len(bins) # 2 THEN unique_bins ELSE bins

\* bins.searchsorted(v, side='left'): how many edges lie strictly below v
SearchSortedLeft(bins, v) == Cardinality({i \in DOMAIN bins : bins[i] < v})

NoBand == -1

\* _bins_to_cuts(..., right=True, include_lowest=True, labels=False):
\* the bin number of each value, NoBand where pandas writes NaN
qcut(x, q) ==
    LET bins == qcut_bins(x, q)
        ids(v) == IF q * v = bins[1] THEN 1 ELSE SearchSortedLeft(bins, q * v)
        na_mask(v) == ids(v) = Len(bins) \/ ids(v) = 0
    IN  [i \in DOMAIN x |-> IF na_mask(x[i]) THEN NoBand ELSE ids(x[i]) - 1]

RECURSIVE SetToSortedSeq(_)
SetToSortedSeq(S) ==
    IF S = {} THEN <<>>
    ELSE LET m == CHOOSE x \in S : \A y \in S : x <= y
         IN  <<m>> \o SetToSortedSeq(S \ {m})

ColumnOrZero(t, rows, c) == IF c \in t.cols THEN SumSeq([i \in DOMAIN rows |-> rows[i][c]]) ELSE 0

price_band_entry_whole(t, price_band, band_id) ==
    LET idx == SetToSortedSeq({i \in DOMAIN t.rows : price_band[i] = band_id})
        band_df == [j \in DOMAIN idx |-> t.rows[idx[j]]]
        prices == [j \in DOMAIN band_df |-> band_df[j].price]
    IN  [band |-> band_id,
         price_range |-> [min |-> SeqMin(Column(t, "price")), max |-> SeqMax(Column(t, "price"))],
         product_count |-> Len(band_df),
         total_sales |-> ColumnOrZero(t, band_df, "sales"),
         total_revenue |-> ColumnOrZero(t, band_df, "revenue"),
         avg_rating |-> IF "rating" \in t.cols
                        THEN Mean([j \in DOMAIN band_df |-> band_df[j].rating]) ELSE Zero]

price_band_entry(t, price_band, band_id) ==
    LET idx == SetToSortedSeq({i \in DOMAIN t.rows : price_band[i] = band_id})
        band_df == [j \in DOMAIN idx |-> t.rows[idx[j]]]
        prices == [j \in DOMAIN band_df |-> band_df[j].price]
    IN  [band |-> band_id,
         price_range |-> [min |-> SeqMin(prices), max |-> SeqMax(prices)],
         product_count |-> Len(band_df),
         total_sales |-> ColumnOrZero(t, band_df, "sales"),
         total_revenue |-> ColumnOrZero(t, band_df, "revenue"),
         avg_rating |-> IF "rating" \in t.cols
                        THEN Mean([j \in DOMAIN band_df |-> band_df[j].rating]) ELSE Zero]

\* the loop over sorted(df['price_band'].unique()); int(band_id) of a NaN band
\* raises ValueError (the rows qcut left without a band)
compute_price_bands(t) ==
    IF DfEmpty(t) \/ "price" \notin t.cols THEN Returned(<<>>)
    ELSE LET price_band == qcut(Column(t, "price"), num_bands)
             ids == {price_band[i] : i \in DOMAIN price_band}
             order == SetToSortedSeq(ids)
         IN  IF NoBand \in ids THEN Raised("ValueError")
             ELSE Returned([j \in DOMAIN order |-> price_band_entry(t, price_band, order[j])])

\* compute_price_bands writes the column price_band into its argument
price_bands_columns(t) ==
    IF DfEmpty(t) \/ "price" \notin t.cols THEN t.cols ELSE t.cols \cup {"price_band"}

\* Series.median(): NaN for an empty series
Median(s) ==
    LET a == SortAsc(s)
        n == Len(s)
    IN  IF n = 0 THEN NaN
        ELSE IF n % 2 = 1 THEN Frac(a[(n + 1) \div 2], 1)
        ELSE Frac(a[n \div 2] + a[n \div 2 + 1], 2)

\* float(Series.min()) / float(Series.max()): NaN for an empty series
MinOrNaN(s) == IF s = <<>> THEN NaN ELSE Frac(SeqMin(s), 1)
MaxOrNaN(s) == IF s = <<>> THEN NaN ELSE Frac(SeqMax(s), 1)

compute_market_overview(t) ==
    [total_products |-> Len(t.rows),
     total_sales |-> ColumnOrZero(t, t.rows, "sales"),
     total_revenue |-> ColumnOrZero(t, t.rows, "revenue"),
     avg_price |-> IF "price" \in t.cols THEN Mean(Column(t, "price")) ELSE Zero,
     median_price |-> IF "price" \in t.cols THEN Median(Column(t, "price")) ELSE Zero,
     avg_rating |-> IF "rating" \in t.cols THEN Mean(Column(t, "rating")) ELSE Zero,
     price_range |-> [min |-> IF "price" \in t.cols THEN MinOrNaN(Column(t, "price")) ELSE Zero,
                      max |-> IF "price" \in t.cols THEN MaxOrNaN(Column(t, "price")) ELSE Zero]]

(***************************************************************************)
(* Price / sales correlation.  Pearson's r is kept as its sign and its     *)
(* square (a fraction); it is NaN when either variance is 0.               *)
(***************************************************************************)
PriceBuckets == 10
SweetSpots == 3

Pearson(x, y) ==
    LET n == Len(x)
        sx == SumSeq(x)
        sy == SumSeq(y)
        cov == n * SumSeq([i \in DOMAIN x |-> x[i] * y[i]]) - sx * sy
        vx == n * SumSeq([i \in DOMAIN x |-> x[i] * x[i]]) - sx * sx
        vy == n * SumSeq([i \in DOMAIN y |-> y[i] * y[i]]) - sy * sy
    IN  IF vx * vy = 0 THEN [sign |-> 0, sq |-> NaN]
        ELSE [sign |-> IF cov > 0 THEN 1 ELSE IF cov < 0 THEN -1 ELSE 0,
              sq |-> Frac(cov * cov, vx * vy)]

\* correlation > 0.3, < -0.3, or neither (every comparison with NaN is false)
relationship(r) ==
    IF r.sign = 1 /\ FLt(Frac(9, 100), r.sq) THEN "positive"
    ELSE IF r.sign = -1 /\ FLt(Frac(9, 100), r.sq) THEN "negative"
    ELSE "weak"

\* pd.cut(x, bins=10): the number 1..10 of the equal-width bucket of v; the
\* lowest edge is moved below the minimum, and a series of equal values gets
\* a range around that value with the value on the middle edge
cut_bucket(x, v) ==
    LET mn == SeqMin(x)
        mx == SeqMax(x)
    IN  IF mn = mx THEN PriceBuckets \div 2
        ELSE 1 + Cardinality({j \in 1..PriceBuckets :
                                 PriceBuckets * mn + j * (mx - mn) < PriceBuckets * v})

\* stable insertion by total_sales, descending: Series.sort_values(ascending=False)
\* argsorts the reversed series and reverses the result, and numpy sorts the
\* 10 buckets by insertion, so equal sums keep the bucket order
RECURSIVE InsertBySales(_, _)
InsertBySales(e, s) ==
    IF s = <<>> THEN <<e>>
    ELSE IF e.total_sales >= Head(s).total_sales THEN <<e>> \o s
    ELSE <<Head(s)>> \o InsertBySales(e, Tail(s))

RECURSIVE SortBySalesDesc(_)
SortBySalesDesc(s) ==
    IF s = <<>> THEN <<>> ELSE InsertBySales(Head(s), SortBySalesDesc(Tail(s)))

compute_price_vs_sales_correlation(t) ==
    IF DfEmpty(t) \/ "price" \notin t.cols \/ "sales" \notin t.cols THEN EmptyDict
    ELSE LET price == Column(t, "price")
             sales == Column(t, "sales")
             correlation == Pearson(price, sales)
             bucket_sales(b) ==
                 SumSeq([i \in DOMAIN price |-> IF cut_bucket(price, price[i]) = b THEN sales[i] ELSE 0])
             sweet_spots ==
                 head(SortBySalesDesc([b \in 1..PriceBuckets |->
                                          [price_bucket |-> b, total_sales |-> bucket_sales(b)]]),
                      SweetSpots)
         IN  [correlation |-> correlation,
              relationship |-> relationship(correlation),
              sweet_spots |-> sweet_spots]

price_vs_sales_columns(t) ==
    IF DfEmpty(t) \/ "price" \notin t.cols \/ "sales" \notin t.cols THEN t.cols
    ELSE t.cols \cup {"price_bucket"}

(***************************************************************************)
(* extract_features_from_title: src/data_pipeline/clean_amazon_sales.py    *)
(***************************************************************************)
color_keywords == <<"black", "brown", "blonde", "burgundy", "red", "ombre", "highlight">>

\* the end of the run of characters of S that starts at position i
RECURSIVE RunEnd(_, _, _)
RunEnd(s, i, S) == IF i <= Len(s) /\ CharAt(s, i) \in S THEN RunEnd(s, i + 1, S) ELSE i

\* re.search(r'(\d+)\s*(inch|in|")', s): the digits of the leftmost match, or ""
LengthMatch(s) ==
    LET ok(i) == /\ CharAt(s, i) \in Digits
                 /\ LET e == RunEnd(s, RunEnd(s, i, Digits), Whitespace)
                    IN  StartsAt(s, e, "in") \/ StartsAt(s, e, "\"")
        starts == {i \in 1..Len(s) : ok(i)}
    IN  IF starts = {} THEN ""
        ELSE LET i == CHOOSE j \in starts : \A k \in starts : j <= k
             IN  SubSeq(s, i, RunEnd(s, i, Digits) - 1)

\* str(int(digits)): leading zeros go
RECURSIVE IntStr(_)
IntStr(d) == IF Len(d) > 1 /\ CharAt(d, 1) = "0" THEN IntStr(SubSeq(d, 2, Len(d))) ELSE d

\* first color keyword, in list order, that the title contains, or ""
FirstColor(s) ==
    LET hits == {j \in DOMAIN color_keywords : Contains(s, color_keywords[j])}
    IN  IF hits = {} THEN ""
        ELSE color_keywords[CHOOSE j \in hits : \A k \in hits : j <= k]

\* the features dict as the sequence of its (key, value) items in insertion order
extract_features_from_title(title) ==
    LET title_lower == lower(title)
        lace == IF ~Contains(title_lower, "lace") THEN <<>>
                ELSE IF Contains(title_lower, "front") THEN <<<<"lace_type", "lace_front">>>>
                ELSE IF Contains(title_lower, "360") THEN <<<<"lace_type", "360_lace">>>>
                ELSE IF Contains(title_lower, "closure") THEN <<<<"lace_type", "lace_closure">>>>
                ELSE <<<<"lace_type", "lace">>>>
        glueless == IF Contains(title_lower, "glueless") THEN <<<<"glueless", "True">>>> ELSE <<>>
        texture == IF Contains(title_lower, "body wave") THEN <<<<"texture", "body_wave">>>>
                   ELSE IF Contains(title_lower, "straight") THEN <<<<"texture", "straight">>>>
                   ELSE IF Contains(title_lower, "curly") THEN <<<<"texture", "curly">>>>
                   ELSE IF Contains(title_lower, "kinky") THEN <<<<"texture", "kinky">>>>
                   ELSE <<>>
        length_match == LengthMatch(title_lower)
        length == IF length_match # "" THEN <<<<"length", IntStr(length_match)>>>> ELSE <<>>
        color == IF FirstColor(title_lower) # "" THEN <<<<"color", FirstColor(title_lower)>>>> ELSE <<>>
    IN  lace \o glueless \o texture \o length \o color

(***************************************************************************)
(* extract_feature_performance                                             *)
(***************************************************************************)
TopFeatures == 20

\* row.get(c, 0)
RowGet(t, row, c) == IF c \in t.cols THEN row[c] ELSE 0

\* the float row.get(c, 0): the cells of a column are written as integers,
\* and as fractions in the columns a table lists in floats (a float64 column
\* with values that are not whole)
RowFloat(t, row, c) ==
    IF "floats" \in DOMAIN t /\ c \in t.floats THEN row[c] ELSE Frac(RowGet(t, row, c), 1)

\* sum() of a column of floats
RECURSIVE FloatSum(_)
FloatSum(s) ==
    IF s = <<>> THEN [n |-> 0, d |-> 1]
    ELSE LET rest == FloatSum(Tail(s))
         IN  Frac(Head(s).n * rest.d + rest.n * Head(s).d, Head(s).d * rest.d)

\* int(x) of a float: the whole part, rounded towards zero
python_int(x) == IF x.n < 0 THEN -((-x.n) \div x.d) ELSE x.n \div x.d

\* all_features: one entry per row and feature of its title, in row order
RECURSIVE all_features(_, _)
all_features(t, rows) ==
    IF rows = <<>> THEN <<>>
    ELSE LET row == Head(rows)
             features == extract_features_from_title(row.title)
         IN  [j \in DOMAIN features |->
                 [feature_type |-> features[j][1], feature_value |-> features[j][2],
                  sales |-> RowFloat(t, row, "sales"), price |-> RowGet(t, row, "price"),
                  rating |-> RowGet(t, row, "rating")]]
             \o all_features(t, Tail(rows))

\* Series.unique(): the distinct values in order of first appearance
RECURSIVE FirstSeen(_)
FirstSeen(s) ==
    IF s = <<>> THEN <<>>
    ELSE LET rest == FirstSeen(SubSeq(s, 1, Len(s) - 1))
             x == s[Len(s)]
         IN  IF \E i \in DOMAIN rest : rest[i] = x THEN rest ELSE Append(rest, x)

feature_entry(features_df, tag) ==
    LET value_data == SelectSeq(features_df,
                                LAMBDA f : f.feature_type = tag[1] /\ f.feature_value = tag[2])
    IN  [feature |-> tag[1] \o "=" \o tag[2],
         product_count |-> Len(value_data),
         total_sales |-> python_int(FloatSum([i \in DOMAIN value_data |-> value_data[i].sales])),
         avg_price |-> Mean([i \in DOMAIN value_data |-> value_data[i].price]),
         avg_rating |-> Mean([i \in DOMAIN value_data |-> value_data[i].rating])]

\* the nested loops over feature_type.unique() and, within a type, feature_value.unique()
feature_tags(features_df) ==
    LET types == FirstSeen([i \in DOMAIN features_df |-> features_df[i].feature_type])
        values(ty) == FirstSeen(LET d == SelectSeq(features_df, LAMBDA f : f.feature_type = ty)
                                IN  [i \in DOMAIN d |-> <<ty, d[i].feature_value>>])
        RECURSIVE Tags(_)
        Tags(ts) == IF ts = <<>> THEN <<>> ELSE values(Head(ts)) \o Tags(Tail(ts))
    IN  Tags(types)

\* sorted(feature_stats, key=total_sales, reverse=True): stable, equal keys keep their order
RECURSIVE InsertStable(_, _)
InsertStable(e, s) ==
    IF s = <<>> THEN <<e>>
    ELSE IF e.total_sales >= Head(s).total_sales THEN <<e>> \o s
    ELSE <<Head(s)>> \o InsertStable(e, Tail(s))

RECURSIVE sorted_by_total_sales(_)
sorted_by_total_sales(s) ==
    IF s = <<>> THEN <<>> ELSE InsertStable(Head(s), sorted_by_total_sales(Tail(s)))

extract_feature_performance(t) ==
    IF DfEmpty(t) \/ "title" \notin t.cols THEN <<>>
    ELSE LET features_df == all_features(t, t.rows)
             tags == feature_tags(features_df)
             feature_stats == [j \in DOMAIN tags |-> feature_entry(features_df, tags[j])]
         IN  IF features_df = <<>> THEN <<>>
             ELSE head(sorted_by_total_sales(feature_stats), TopFeatures)

(***************************************************************************)
(* compute_launch_profile                                                  *)
(***************************************************************************)
\* pd.cut bins [0, 30, 90, 180, 365, inf], right-closed, with their labels
age_bins == <<0, 30, 90, 180, 365>>
age_labels == <<"<1mo", "1-3mo", "3-6mo", "6-12mo", ">12mo">>

\* the index of the age category of d > 0
age_category(d) == Cardinality({j \in DOMAIN age_bins : age_bins[j] < d})

compute_launch_profile(t) ==
    IF DfEmpty(t) \/ "days_since_launch" \notin t.cols THEN EmptyDict
    ELSE LET valid_df == SelectSeq(t.rows, LAMBDA r : r.days_since_launch > 0)
             days == [i \in DOMAIN valid_df |-> valid_df[i].days_since_launch]
             entry(c) ==
                 LET cat_df == SelectSeq(valid_df, LAMBDA r : age_category(r.days_since_launch) = c)
                 IN  IF cat_df = <<>> THEN <<>>
                     ELSE <<[age |-> age_labels[c],
                             product_count |-> Len(cat_df),
                             total_sales |-> ColumnOrZero(t, cat_df, "sales"),
                             avg_rating |-> IF "rating" \in t.cols
                                            THEN Mean([i \in DOMAIN cat_df |-> cat_df[i].rating])
                                            ELSE Zero]>>
         IN  IF valid_df = <<>> THEN EmptyDict
             ELSE [age_distribution |-> entry(1) \o entry(2) \o entry(3) \o entry(4) \o entry(5),
                   avg_days_since_launch |-> Mean(days),
                   median_days_since_launch |-> Median(days)]

(***************************************************************************)
(* compute_rating_profile                                                  *)
(***************************************************************************)
rating_bins == <<0, 2, 3, 4, 5>>
rating_labels == <<"1-2 stars", "2-3 stars", "3-4 stars", "4-5 stars">>

\* pd.cut(rating, bins=rating_bins, include_lowest=True): the index of the
\* category of r, 0 where pandas writes NaN (r outside [0, 5])
rating_category(r) ==
    IF r = rating_bins[1] THEN 1
    ELSE LET ids == Cardinality({j \in DOMAIN rating_bins : rating_bins[j] < r})
         IN  IF ids = 0 \/ ids = Len(rating_bins) THEN 0 ELSE ids

compute_rating_profile(t) ==
    IF DfEmpty(t) \/ "rating" \notin t.cols THEN EmptyDict
    ELSE LET rating == Column(t, "rating")
             entry(c) ==
                 LET cat_df == SelectSeq(t.rows, LAMBDA r : rating_category(r.rating) = c)
                 IN  IF cat_df = <<>> THEN <<>>
                     ELSE <<[category |-> rating_labels[c],
                             product_count |-> Len(cat_df),
                             sales_share |-> IF "sales" \in t.cols
                                             THEN Frac(ColumnOrZero(t, cat_df, "sales"),
                                                       ColumnOrZero(t, t.rows, "sales"))
                                             ELSE Zero]>>
             review_to_sales ==
                 IF "reviews" \in t.cols /\ "sales" \in t.cols
                 THEN LET total_reviews == ColumnOrZero(t, t.rows, "reviews")
                          total_sales == ColumnOrZero(t, t.rows, "sales")
                      IN  IF total_sales > 0 THEN Frac(total_reviews, total_sales) ELSE Zero
                 ELSE Zero
         IN  [rating_distribution |-> entry(1) \o entry(2) \o entry(3) \o entry(4),
              avg_rating |-> Mean(rating),
              median_rating |-> Median(rating),
              review_to_sales_ratio |-> review_to_sales]

rating_profile_columns(t) ==
    IF DfEmpty(t) \/ "rating" \notin t.cols THEN t.cols ELSE t.cols \cup {"rating_category"}

(***************************************************************************)
(* compute_market_statistics                                               *)
(***************************************************************************)
\* the seven stage functions in call order; the tables they see carry the
\* columns the earlier stages wrote, and an exception ends the whole call.
\* table is the argument as the stages leave it.
platform_stages(t, bands) ==
    LET t1 == [t EXCEPT !.cols = price_bands_columns(t)]
        t2 == [t1 EXCEPT !.cols = price_vs_sales_columns(t1)]
        t3 == [t2 EXCEPT !.cols = rating_profile_columns(t2)]
    IN  IF bands.raised THEN [raised |-> TRUE, val |-> bands.val, table |-> t1]
        ELSE [raised |-> FALSE,
              val |-> [market_overview |-> compute_market_overview(t),
                       competition |-> compute_competition_metrics(t),
                       price_bands |-> bands.val,
                       price_vs_sales |-> compute_price_vs_sales_correlation(t1),
                       feature_performance |-> extract_feature_performance(t2),
                       launch_profile |-> compute_launch_profile(t2),
                       rating_profile |-> compute_rating_profile(t2)],
              table |-> t3]

platform_statistics(t) == platform_stages(t, compute_price_bands(t))

\* a table an earlier call has worked on is passed over as well
Skipped_seen(d) == d = <<>> \/ DfEmpty(d[1]) \/ "price_band" \in d[1].cols

\* df is None or df.empty
Skipped(d) == d = <<>> \/ DfEmpty(d[1])

\* the cross_platform block of two non-empty tables
cross_platform(a, b) ==
    [volume_comparison |->
         [amazon_products |-> Len(a.rows),
          tiktok_products |-> Len(b.rows),
          amazon_sales |-> ColumnOrZero(a, a.rows, "sales"),
          tiktok_sales |-> ColumnOrZero(b, b.rows, "sales")],
     price_comparison |->
         [amazon_avg |-> IF "price" \in a.cols THEN Mean(Column(a, "price")) ELSE Zero,
          tiktok_avg |-> IF "price" \in b.cols THEN Mean(Column(b, "price")) ELSE Zero],
     rating_comparison |->
         [amazon_avg |-> IF "rating" \in a.cols THEN Mean(Column(a, "rating")) ELSE Zero,
          tiktok_avg |-> IF "rating" \in b.cols THEN Mean(Column(b, "rating")) ELSE Zero]]

statistics_document_always(platforms, a, b) ==
    IF ~Skipped(a) /\ ~Skipped(b)
    THEN [timestamp |-> "now", platforms |-> platforms, cross_platform |-> cross_platform(a[1], b[1])]
    ELSE [timestamp |-> "now", platforms |-> platforms, cross_platform |-> EmptyDict]

\* the statistics dict: the key cross_platform is set only under the condition
statistics_document(platforms, a, b) ==
    IF ~Skipped(a) /\ ~Skipped(b)
    THEN [timestamp |-> "now", platforms |-> platforms, cross_platform |-> cross_platform(a[1], b[1])]
    ELSE [timestamp |-> "now", platforms |-> platforms]

\* the statistics dict after the loop, from the two platforms' results
\* (stage[1] Amazon's, stage[2] TikTok's); amazon_df and tiktok_df are the
\* arguments as the call leaves them (the TikTok table is not reached when
\* Amazon's stages raise)
market_document(a, b, stage) ==
    LET amazon_table == IF Skipped(a) THEN a ELSE <<stage[1].table>>
        tiktok_table == IF Skipped(b) THEN b ELSE <<stage[2].table>>
        platforms == IF Skipped(a)
                     THEN IF Skipped(b) THEN EmptyDict ELSE [tiktok |-> stage[2].val]
                     ELSE IF Skipped(b) THEN [amazon |-> stage[1].val]
                          ELSE [amazon |-> stage[1].val, tiktok |-> stage[2].val]
    IN  IF stage[1].raised
        THEN [raised |-> TRUE, val |-> stage[1].val, amazon_df |-> amazon_table, tiktok_df |-> b]
        ELSE IF stage[2].raised
        THEN [raised |-> TRUE, val |-> stage[2].val, amazon_df |-> amazon_table, tiktok_df |-> tiktok_table]
        ELSE [raised |-> FALSE, val |-> statistics_document(platforms, a, b),
              amazon_df |-> amazon_table, tiktok_df |-> tiktok_table]

\* the loop over [('amazon', amazon_df), ('tiktok', tiktok_df)], then the
\* cross-platform block
compute_market_statistics(a, b) ==
    market_document(a, b,
        [i \in 1..2 |->
            IF Skipped(<<a, b>>[i]) THEN [raised |-> FALSE, val |-> EmptyDict, table |-> EmptyDict]
            ELSE platform_statistics(<<a, b>>[i][1])])

MarketRows == {MkRow(1, 2), MkRow(3, 0), MkRow(0, 2)}
MarketCols == {AllCols, BaseCols \cup {"title"}}

\* None, or a canonical table
MarketTables ==
    {<<>>} \cup {<<[cols |-> c, rows |-> r]>> :
                    c \in MarketCols, r \in UNION {[1..k -> MarketRows] : k \in 0..MaxMarketRows}}

(***************************************************************************)
(* Uploaded tables: columns in file order, rows of cells                   *)
(***************************************************************************)
\* a cell as pandas reads it: a number, a string, or NaN for a missing value
Num(n) == [k |-> "num", n |-> n, s |-> ""]
Str(s) == [k |-> "str", n |-> 0, s |-> s]
Missing == [k |-> "nan", n |-> 0, s |-> ""]

\* a DataFrame read from a file: columns in file order, cols the same names as a set
MkRaw(columns, rows) ==
    [columns |-> columns, cols |-> {columns[i] : i \in DOMAIN columns}, rows |-> rows]

\* Series.astype(str) of one cell: NaN becomes the string 'nan'
astype_str(c) == IF c.k = "num" THEN ToString(c.n) ELSE IF c.k = "str" THEN c.s ELSE "nan"

\* Series.astype(bool) of one cell: zero and the empty string are False, NaN is True
astype_bool(c) == IF c.k = "num" THEN c.n # 0 ELSE IF c.k = "str" THEN c.s # "" ELSE TRUE

\* a column copied as it is: the number, the string, or NaN
value(c) == IF c.k = "num" THEN Frac(c.n, 1) ELSE IF c.k = "str" THEN c.s ELSE NaN

Letters == DOMAIN LowerOf \cup {LowerOf[c] : c \in DOMAIN LowerOf}
WordChars == Letters \cup Digits \cup {"_"}
\* stands for the code points U+10000..U+10FFFF (emoji), which this ASCII text cannot spell
Astral == {"^"}

\* the length of the longest run s[i], s[i+1], .. of characters inside S
\* (member) or outside S (~member)
Span(s, i, S, member) ==
    LET stop == {j \in i..Len(s) : (CharAt(s, j) \in S) # member}
    IN  IF i > Len(s) THEN 0
        ELSE IF stop = {} THEN Len(s) + 1 - i
        ELSE (CHOOSE j \in stop : \A h \in stop : j <= h) - i

\* str.strip()
strip(s) ==
    LET idx == {i \in 1..Len(s) : CharAt(s, i) \notin Whitespace}
    IN  IF idx = {} THEN ""
        ELSE SubSeq(s, CHOOSE i \in idx : \A j \in idx : i <= j,
                       CHOOSE i \in idx : \A j \in idx : j <= i)

\* ' '.join(text.split())
RECURSIVE join_split(_)
join_split(s) ==
    LET a == Span(s, 1, Whitespace, TRUE)
        b == Span(s, a + 1, Whitespace, FALSE)
        rest == join_split(SubSeq(s, a + b + 1, Len(s)))
    IN  IF b = 0 THEN ""
        ELSE SubSeq(s, a + 1, a + b) \o (IF rest = "" THEN "" ELSE " " \o rest)

\* re.match(pattern, s) for the patterns of the cleaners: the length of the
\* match at the start of s, 0 when there is none
match_len(pattern, s) ==
    LET word(p) == IF StartsAt(s, 1, p) THEN Span(s, Len(p) + 1, WordChars, TRUE) ELSE 0
        close == {j \in 2..Len(s) : StartsAt(s, j, "](")}
        first_close == CHOOSE j \in close : \A h \in close : j <= h
        ends == {e \in (first_close + 2)..Len(s) : CharAt(s, e) = ")"}
    IN  CASE pattern = "http\\S+|www.\\S+" ->
                 IF (StartsAt(s, 1, "http") \/ StartsAt(s, 1, "www"))
                    /\ Span(s, 5, Whitespace, FALSE) > 0
                 THEN 4 + Span(s, 5, Whitespace, FALSE) ELSE 0
          [] pattern = "@\\w+" -> IF word("@") > 0 THEN 1 + word("@") ELSE 0
          [] pattern = "#(\\w+)" -> IF word("#") > 0 THEN 1 + word("#") ELSE 0
          [] pattern = "/u/\\w+" -> IF word("/u/") > 0 THEN 3 + word("/u/") ELSE 0
          [] pattern = "/r/\\w+" -> IF word("/r/") > 0 THEN 3 + word("/r/") ELSE 0
          [] pattern = "[\\U00010000-\\U0010ffff]+" -> Span(s, 1, Astral, TRUE)
          [] pattern = "([!?.]){3,}" ->
                 IF Span(s, 1, {"!", "?", "."}, TRUE) >= 3
                 THEN Span(s, 1, {"!", "?", "."}, TRUE) ELSE 0
          [] pattern = "\\[.*?\\]\\(.*?\\)" ->
                 IF ~StartsAt(s, 1, "[") \/ close = {} THEN 0
                 ELSE IF ends = {} THEN 0
                 ELSE CHOOSE e \in ends : \A h \in ends : e <= h
          [] pattern = "\\*\\*?" ->
                 IF StartsAt(s, 1, "**") THEN 2 ELSE IF StartsAt(s, 1, "*") THEN 1 ELSE 0
          [] pattern = "~~" -> IF StartsAt(s, 1, "~~") THEN 2 ELSE 0
          [] pattern = "[$,]" -> IF CharAt(s, 1) \in {"$", ","} THEN 1 ELSE 0

\* what re.sub puts in the place of the match m
replacement(pattern, m) ==
    CASE pattern = "#(\\w+)" -> SubSeq(m, 2, Len(m))
      [] pattern = "[\\U00010000-\\U0010ffff]+" -> " "
      [] pattern = "([!?.]){3,}" -> CharAt(m, Len(m)) \o CharAt(m, Len(m))
      [] OTHER -> ""

\* the position of the leftmost match of pattern in s, 0 when there is none
leftmost_match(pattern, s) ==
    LET at == {k \in 1..Len(s) : match_len(pattern, SubSeq(s, k, Len(s))) > 0}
    IN  IF at = {} THEN 0 ELSE CHOOSE k \in at : \A h \in at : k <= h

\* re.sub(pattern, replacement, s): leftmost matches, none overlapping; the
\* text before the match at k is kept, the match of n characters is replaced
RECURSIVE re_sub(_, _)
re_sub_match(pattern, s, k, n) ==
    SubSeq(s, 1, k - 1) \o replacement(pattern, SubSeq(s, k, k + n - 1))
        \o re_sub(pattern, SubSeq(s, k + n, Len(s)))

re_sub_at(pattern, s, k) ==
    IF k = 0 THEN s ELSE re_sub_match(pattern, s, k, match_len(pattern, SubSeq(s, k, Len(s))))

re_sub(pattern, s) == re_sub_at(pattern, s, leftmost_match(pattern, s))

clean_comment_text(text) ==
    strip(join_split(re_sub("#(\\w+)", re_sub("@\\w+", re_sub("http\\S+|www.\\S+",
        re_sub("[\\U00010000-\\U0010ffff]+", text))))))

clean_reddit_text(text) ==
    strip(join_split(re_sub("~~", re_sub("\\*\\*?", re_sub("/r/\\w+", re_sub("/u/\\w+",
        re_sub("\\[.*?\\]\\(.*?\\)", re_sub("http\\S+|www.\\S+", text))))))))

clean_review_text(text) ==
    strip(join_split(re_sub("([!?.]){3,}", re_sub("http\\S+|www.\\S+", text))))

spam_patterns == <<"follow me", "check out my", "click link", "dm me">>

\* is_valid_comment(text) with min_length = 5
is_valid_comment(text) ==
    /\ Len(text) >= 5
    /\ \E i \in 1..Len(text) : CharAt(text, i) \in Letters \cup Digits
    /\ ~ContainsAny(lower(text), spam_patterns)

(***************************************************************************)
(* Numeric and date coercion                                               *)
(***************************************************************************)
RECURSIVE DigitsValue(_)
DigitsValue(d) ==
    IF d = "" THEN 0
    ELSE 10 * DigitsValue(SubSeq(d, 1, Len(d) - 1))
         + (CHOOSE v \in 0..9 : ToString(v) = CharAt(d, Len(d)))

RECURSIVE Pow10(_)
Pow10(e) == IF e = 0 THEN 1 ELSE 10 * Pow10(e - 1)

\* float(s): an optional sign, digits with an optional fraction part, blanks
\* around them ignored; every other string of the model fails to parse (NaN)
parse_float(s) ==
    LET u == strip(s)
        neg == StartsAt(u, 1, "-")
        t == IF neg THEN SubSeq(u, 2, Len(u)) ELSE u
        a == Span(t, 1, Digits, TRUE)
        dot == StartsAt(t, a + 1, ".")
        b == IF dot THEN Span(t, a + 2, Digits, TRUE) ELSE 0
        whole == a + b > 0 /\ a + b + (IF dot THEN 1 ELSE 0) = Len(t)
    IN  IF ~whole THEN NaN
        ELSE Frac((IF neg THEN -1 ELSE 1)
                      * DigitsValue(SubSeq(t, 1, a) \o SubSeq(t, a + 2, a + 1 + b)),
                  Pow10(b))

\* pd.to_numeric(series, errors='coerce') of one cell
to_numeric(c) ==
    IF c.k = "num" THEN Frac(c.n, 1) ELSE IF c.k = "str" THEN parse_float(c.s) ELSE NaN

NaT == [nat |-> TRUE, date |-> ""]

\* pd.to_datetime(series, errors='coerce') of one cell: a string yyyy-mm-dd is
\* that day, a number is a count of nanoseconds from the epoch, the rest is NaT
to_datetime(c) ==
    IF c.k = "num" THEN [nat |-> FALSE, date |-> "1970-01-01"]
    ELSE IF /\ c.k = "str" /\ Len(c.s) = 10
            /\ \A i \in {1, 2, 3, 4, 6, 7, 9, 10} : CharAt(c.s, i) \in Digits
            /\ CharAt(c.s, 5) = "-" /\ CharAt(c.s, 8) = "-"
            /\ DigitsValue(SubSeq(c.s, 6, 7)) \in 1..12
            /\ DigitsValue(SubSeq(c.s, 9, 10)) \in 1..28
         THEN [nat |-> FALSE, date |-> c.s]
    ELSE NaT

\* (datetime.now() - launch_date).dt.days: NaN for NaT, else the days since that date
days_since(d) == IF d.nat THEN NaN ELSE [since |-> d.date]

FMul(a, b) == IF IsNaN(a) \/ IsNaN(b) THEN NaN ELSE Frac(a.n * b.n, a.d * b.d)
FDiv(a, b) == IF IsNaN(a) \/ IsNaN(b) THEN NaN ELSE Frac(a.n * b.d, a.d * b.n)
Five == Frac(5, 1)

\* Series.fillna(0)
fillna(x) == IF IsNaN(x) THEN Zero ELSE x

\* Series.max(): the largest value that is not NaN, NaN when there is none
FMax(s) ==
    LET vals == {s[i] : i \in DOMAIN s} \ {NaN}
    IN  IF vals = {} THEN NaN ELSE CHOOSE x \in vals : \A y \in vals : FLe(y, x)

\* Series.astype(int): the fraction part goes
astype_int(x) == Frac((IF x.n < 0 THEN -1 ELSE 1) * (Abs(x.n) \div x.d), 1)

\* rows[mask]: the rows at the positions of S, in table order
RECURSIVE KeepFrom(_, _, _)
KeepFrom(rows, S, i) ==
    IF rows = <<>> THEN <<>>
    ELSE (IF i \in S THEN <<Head(rows)>> ELSE <<>>) \o KeepFrom(Tail(rows), S, i + 1)

Keep(rows, S) == KeepFrom(rows, S, 1)

(***************************************************************************)
(* Schema resolution                                                       *)
(***************************************************************************)
\* the column the first present keyword names, as a set ({} when no keyword
\* is present).  fold: the keywords are looked up among the lower-cased column
\* names (dict {col.lower(): col}, so the last column of that name wins)
resolve(columns, keywords, fold) ==
    LET key(i) == IF fold THEN lower(columns[i]) ELSE columns[i]
        hits == {j \in DOMAIN keywords : \E i \in DOMAIN columns : key(i) = keywords[j]}
        at == {i \in DOMAIN columns :
                   key(i) = keywords[CHOOSE j \in hits : \A h \in hits : j <= h]}
    IN  IF hits = {} THEN {}
        ELSE {columns[CHOOSE i \in at : \A h \in at : IF fold THEN h <= i ELSE i <= h]}

\* the dict field -> column of the fields some keyword resolves
column_mapping(columns, patterns, fold) ==
    [f \in {g \in DOMAIN patterns : resolve(columns, patterns[g], fold) # {}} |->
        CHOOSE c \in resolve(columns, patterns[f], fold) : TRUE]

detect_amazon_columns(t) ==
    column_mapping(t.columns,
        [product_id |-> <<"asin", "product_id", "product id", "id">>,
         title |-> <<"title", "product_title", "product name", "name">>,
         price |-> <<"price", "unit_price", "list_price">>,
         sales |-> <<"sales", "units_sold", "quantity", "qty">>,
         revenue |-> <<"revenue", "total_revenue", "sales_amount">>,
         rating |-> <<"rating", "avg_rating", "average_rating", "star_rating">>,
         reviews |-> <<"reviews", "review_count", "number_of_reviews">>,
         launch_date |-> <<"launch_date", "release_date", "available_date">>,
         category |-> <<"category", "product_category", "department">>,
         seller |-> <<"seller", "seller_name", "merchant">>,
         size |-> <<"size", "product_size", "dimensions">>,
         weight |-> <<"weight", "product_weight", "shipping_weight">>], TRUE)

detect_tiktok_columns(t) ==
    column_mapping(t.columns,
        [product_id |-> <<"product_id", "product id", "id", "sku">>,
         title |-> <<"title", "product_title", "product name", "name", "product_name">>,
         price |-> <<"price", "unit_price", "selling_price", "sale_price">>,
         sales |-> <<"sales", "units_sold", "quantity_sold", "qty", "sold">>,
         revenue |-> <<"revenue", "total_revenue", "gmv", "sales_amount">>,
         rating |-> <<"rating", "avg_rating", "average_rating", "score">>,
         reviews |-> <<"reviews", "review_count", "number_of_reviews">>,
         launch_date |-> <<"launch_date", "created_at", "publish_date">>,
         category |-> <<"category", "product_category", "category_name">>,
         shop |-> <<"shop", "shop_name", "store", "store_name", "seller">>,
         size |-> <<"size", "product_size">>,
         weight |-> <<"weight", "product_weight">>], TRUE)

\* the Chinese aliases are written in pinyin with a zh: prefix (ASCII text)
detect_tiktok_comment_columns(t) ==
    column_mapping(t.columns,
        [video_id |-> <<"video_id", "zh:shipin ID">>,
         comment_id |-> <<"comment_id", "zh:pinglun ID">>,
         user_id |-> <<"user_id", "zh:yonghu ID">>,
         username |-> <<"username", "zh:yonghu nicheng", "zh:nicheng">>,
         text |-> <<"comment_text", "text", "zh:pinglun neirong", "zh:neirong">>,
         created_at |-> <<"created_at", "time", "zh:fabu shijian">>,
         like_count |-> <<"like_count", "likes", "zh:dianzan shu">>,
         reply_count |-> <<"reply_count", "replies", "zh:huifu shuliang">>], FALSE)

detect_amazon_review_columns(t) ==
    column_mapping(t.columns,
        [product_id |-> <<"asin", "product_id", "product id">>,
         text |-> <<"text", "review_text", "review", "body", "comment">>,
         rating |-> <<"rating", "star_rating", "stars", "score">>,
         helpful |-> <<"helpful", "helpful_count", "helpful_votes", "upvotes">>,
         date |-> <<"date", "review_date", "created_at", "timestamp">>,
         country |-> <<"country", "location", "marketplace">>,
         title |-> <<"title", "review_title", "summary">>,
         verified |-> <<"verified", "verified_purchase">>], TRUE)

COLUMN_ALIASES ==
    [rating |-> <<"zh:pingfen", "zh:xingji", "rating", "star">>,
     comment_text |-> <<"zh:pinglun", "zh:pinglun neirong", "content", "review_text">>,
     date |-> <<"zh:riqi", "zh:shijian", "zh:pinglun shijian", "date">>,
     sku |-> <<"SKU", "sku", "zh:bianti", "zh:guige">>]

\* _first_match(cols, candidates): the set holds the match, {} is None
first_match(cols, candidates) == resolve(cols, candidates, FALSE)

(***************************************************************************)
(* Normalizers                                                             *)
(***************************************************************************)
\* clean_amazon_sales: ratings above 5 are divided by 10
rating_over_ten(rating) ==
    [i \in DOMAIN rating |->
        IF FLt(Five, rating[i]) THEN FDiv(rating[i], Frac(10, 1)) ELSE rating[i]]

\* clean_tiktok_sales, process_amazon_reviews: when the largest rating is above 5,
\* every rating is divided by it and multiplied by 5
rating_over_max(rating) ==
    IF FLt(Five, FMax(rating))
    THEN [i \in DOMAIN rating |-> FMul(FDiv(rating[i], FMax(rating)), Five)]
    ELSE rating

\* str.extract(r'(\d+\.?\d*)')[0] of one string, as a cell: NaN without a match
extract_number(s) ==
    LET starts == {i \in 1..Len(s) : CharAt(s, i) \in Digits}
        i == CHOOSE j \in starts : \A h \in starts : j <= h
        a == Span(s, i, Digits, TRUE)
        b == IF StartsAt(s, i + a, ".") THEN 1 + Span(s, i + a + 1, Digits, TRUE) ELSE 0
    IN  IF starts = {} THEN Missing ELSE Str(SubSeq(s, i, i + a + b - 1))

\* the body clean_amazon_sales and clean_tiktok_sales share: they differ in the
\* generated identifiers (AMZ_i, TT_i), the seller field (seller, shop), the
\* rating rule and the platform
clean_sales(t, mapping, platform) ==
    LET has(f) == f \in DOMAIN mapping
        src(f, i) == t.rows[i][mapping[f]]
        product_id(i) == IF has("product_id") THEN Str(astype_str(src("product_id", i)))
                         ELSE Str((IF platform = "amazon" THEN "AMZ_" ELSE "TT_") \o ToString(i - 1))
        title(i) == Str(strip(astype_str(src("title", i))))
        price(i) == to_numeric(Str(re_sub("[$,]", astype_str(src("price", i)))))
        sales(i) == to_numeric(src("sales", i))
        rating == IF platform = "amazon"
                  THEN rating_over_ten([i \in DOMAIN t.rows |-> to_numeric(src("rating", i))])
                  ELSE rating_over_max([i \in DOMAIN t.rows |-> to_numeric(src("rating", i))])
        cols == {"product_id", "platform"}
                \cup (DOMAIN mapping \ {"revenue", "launch_date"})
                \cup (IF has("revenue") \/ (has("price") /\ has("sales")) THEN {"revenue"} ELSE {})
                \cup (IF has("launch_date") THEN {"launch_date", "days_since_launch"} ELSE {})
        cell(i, c) ==
            CASE c = "product_id" -> product_id(i).s
              [] c = "title" -> title(i).s
              [] c = "price" -> fillna(price(i))
              [] c = "sales" -> fillna(sales(i))
              [] c = "revenue" ->
                     IF has(c) THEN fillna(to_numeric(src(c, i)))
                     ELSE fillna(FMul(price(i), sales(i)))
              [] c = "rating" -> fillna(rating[i])
              [] c = "reviews" -> to_numeric(src(c, i))
              [] c = "launch_date" -> to_datetime(src(c, i))
              [] c = "days_since_launch" -> days_since(to_datetime(src("launch_date", i)))
              [] c = "weight" -> to_numeric(extract_number(astype_str(src(c, i))))
              [] c = "platform" -> platform
              [] OTHER -> astype_str(src(c, i))
        \* dropna(subset=[product_id, title]): the rows with a null in neither
        kept == {i \in DOMAIN t.rows :
                     /\ product_id(i).k # "nan"
                     /\ has("title") => title(i).k # "nan"}
    IN  [cols |-> cols,
         rows |-> Keep([i \in DOMAIN t.rows |-> [c \in cols |-> cell(i, c)]], kept)]

clean_amazon_sales(t) == clean_sales(t, detect_amazon_columns(t), "amazon")

clean_tiktok_sales(t) == clean_sales(t, detect_tiktok_columns(t), "tiktok")

process_tiktok_comments_rows(t, resolved) ==
    LET has(f) == f \in DOMAIN resolved
        src(f, i) == t.rows[i][resolved[f]]
        cols == DOMAIN resolved \cup {"like_count", "reply_count", "likes", "source"}
        count(f, i) == IF has(f) THEN astype_int(fillna(to_numeric(src(f, i)))) ELSE Zero
        cell(i, c) ==
            CASE c = "text" -> clean_comment_text(astype_str(src(c, i)))
              [] c = "created_at" -> to_datetime(src(c, i))
              [] c \in {"like_count", "reply_count"} -> count(c, i)
              [] c = "likes" -> count("like_count", i)
              [] c = "source" -> "tiktok"
              [] OTHER -> value(src(c, i))
        rows == [i \in DOMAIN t.rows |-> [c \in cols |-> cell(i, c)]]
    IN  [cols |-> cols,
         rows |-> Keep(rows, {i \in DOMAIN rows : is_valid_comment(rows[i]["text"])})]

process_tiktok_comments(t) ==
    IF "text" \notin DOMAIN detect_tiktok_comment_columns(t) THEN Raised("ValueError")
    ELSE Returned(process_tiktok_comments_rows(t, detect_tiktok_comment_columns(t)))

process_reddit_comments(t) ==
    LET cols == {"text", "likes", "source"}
                \cup (IF "created_at" \in t.cols THEN {"created_at"} ELSE {})
        cell(i, c) ==
            CASE c = "text" -> clean_reddit_text(astype_str(t.rows[i]["text"]))
              [] c = "likes" -> IF "upvotes" \in t.cols THEN value(t.rows[i]["upvotes"]) ELSE Zero
              [] c = "created_at" -> to_datetime(t.rows[i]["created_at"])
              [] c = "source" -> "reddit"
        rows == [i \in DOMAIN t.rows |-> [c \in cols |-> cell(i, c)]]
    IN  IF DfEmpty(t)
        THEN Returned([cols |-> {"text", "likes", "created_at", "source"}, rows |-> <<>>])
        ELSE IF "text" \notin t.cols THEN Raised("KeyError")
        ELSE Returned([cols |-> cols,
                       rows |-> Keep(rows, {i \in DOMAIN rows : Len(rows[i]["text"]) >= 5})])

process_amazon_reviews_rows(t, mapping) ==
    LET has(f) == f \in DOMAIN mapping
        src(f, i) == t.rows[i][mapping[f]]
        rating == IF has("rating")
                  THEN rating_over_max([i \in DOMAIN t.rows |-> to_numeric(src("rating", i))])
                  ELSE [i \in DOMAIN t.rows |-> Zero]
        cols == DOMAIN mapping \cup {"rating", "helpful", "verified", "platform"}
        cell(i, c) ==
            CASE c = "text" -> clean_review_text(astype_str(src(c, i)))
              [] c = "rating" -> rating[i]
              [] c = "helpful" -> IF has(c) THEN fillna(to_numeric(src(c, i))) ELSE Zero
              [] c = "date" -> to_datetime(src(c, i))
              [] c = "verified" -> IF has(c) THEN astype_bool(src(c, i)) ELSE TRUE
              [] c = "platform" -> "amazon"
              [] OTHER -> astype_str(src(c, i))
        rows == [i \in DOMAIN t.rows |-> [c \in cols |-> cell(i, c)]]
    IN  [cols |-> cols,
         rows |-> Keep(rows, {i \in DOMAIN rows : Len(rows[i]["text"]) >= 10})]

process_amazon_reviews(t) ==
    IF "text" \notin DOMAIN detect_amazon_review_columns(t) THEN Raised("ValueError")
    ELSE Returned(process_amazon_reviews_rows(t, detect_amazon_review_columns(t)))

\* Series.clip(lower=1, upper=5): NaN stays NaN
clip(x) == IF IsNaN(x) THEN x ELSE IF FLt(x, One) THEN One ELSE IF FLt(Five, x) THEN Five ELSE x

clean_tiktok_reviews_rows(raw, col_rating, col_text, col_date, col_sku) ==
    LET the(col) == CHOOSE c \in col : TRUE
        cell(i, c) ==
            CASE c = "comment_text" -> strip(astype_str(raw.rows[i][the(col_text)]))
              [] c = "rating" ->
                     IF col_rating # {}
                     THEN fillna(clip(to_numeric(raw.rows[i][the(col_rating)]))) ELSE Zero
              [] c = "date" -> IF col_date # {} THEN to_datetime(raw.rows[i][the(col_date)]) ELSE NaT
              [] c = "sku" -> IF col_sku # {} THEN astype_str(raw.rows[i][the(col_sku)]) ELSE ""
        rows == [i \in DOMAIN raw.rows |->
                    [c \in {"comment_text", "rating", "date", "sku"} |-> cell(i, c)]]
    IN  [cols |-> {"comment_text", "rating", "date", "sku"},
         rows |-> Keep(rows, {i \in DOMAIN rows : Len(rows[i]["comment_text"]) > 0})]

clean_tiktok_reviews(raw) ==
    IF DfEmpty(raw) THEN Raised("ValueError")
    ELSE IF first_match(raw.columns, COLUMN_ALIASES.comment_text) = {} THEN Raised("ValueError")
    ELSE Returned(clean_tiktok_reviews_rows(raw,
                      first_match(raw.columns, COLUMN_ALIASES.rating),
                      first_match(raw.columns, COLUMN_ALIASES.comment_text),
                      first_match(raw.columns, COLUMN_ALIASES.date),
                      first_match(raw.columns, COLUMN_ALIASES.sku)))

(***************************************************************************)
(* The uploaded tables of the model                                        *)
(***************************************************************************)
TextCells == {Str("Love it!!!! great wig www.x.co"), Str("ok"), Str("DM me!!"), Missing}
NumberCells == {Num(4), Num(100), Num(-3), Str("$1,200"), Missing}

TextColumns == {"asin", "title", "text", "content", "review", "sku", "username"}
DateColumns == {"launch_date", "created_at", "date"}

ColumnLayouts ==
    {<<"ASIN", "Title", "Price", "Sales", "Rating", "launch_date">>,
     <<"text", "rating", "likes", "upvotes", "created_at">>,
     <<"content", "star", "SKU">>,
     <<"title", "Score", "score", "weight">>,
     <<>>}

\* a row of a file: its text cell in the text columns, its number cell in the
\* numeric ones, and in the date columns a day when the number cell is 4
RawRow(columns, text, number) ==
    [c \in {columns[i] : i \in DOMAIN columns} |->
        IF lower(c) \in TextColumns THEN text
        ELSE IF lower(c) \in DateColumns /\ number = Num(4) THEN Str("2024-01-15")
        ELSE number]

RawTables ==
    UNION {{MkRaw(columns, rows) :
                rows \in IF columns = <<>> THEN {<<>>}
                         ELSE UNION {[1..n -> {RawRow(columns, x, y) :
                                                   x \in TextCells, y \in NumberCells}] :
                                         n \in 0..MaxRawRows}} :
            columns \in ColumnLayouts}

(***************************************************************************)
(* Classification of comments and reviews                                  *)
(***************************************************************************)
\* sum(1 for kw in keywords if kw in text)
Count(keywords, text) == Cardinality({j \in DOMAIN keywords : Contains(text, keywords[j])})

\* a < b for two Python tuples of numbers (fractions)
RECURSIVE TupleLt(_, _)
TupleLt(a, b) ==
    IF a = <<>> \/ b = <<>> THEN Len(a) < Len(b)
    ELSE IF Head(a) # Head(b) THEN FLt(Head(a), Head(b))
    ELSE TupleLt(Tail(a), Tail(b))

\* sorted(items, key=..., reverse=True) of a list given as records [key, item]:
\* descending by key, items of equal key in their list order
RECURSIVE sorted_reverse(_)
sorted_reverse(pairs) ==
    IF pairs = <<>> THEN <<>>
    ELSE LET rest == sorted_reverse(Tail(pairs))
             before == {i \in DOMAIN rest : TupleLt(Head(pairs).key, rest[i].key)}
         IN  SubSeq(rest, 1, Cardinality(before)) \o <<Head(pairs)>>
             \o SubSeq(rest, Cardinality(before) + 1, Len(rest))

\* the items of a sorted list of [key, item] records
Items(pairs) == [i \in DOMAIN pairs |-> pairs[i].item]

\* the concatenation of a list of lists
RECURSIVE Concat(_)
Concat(ss) == IF ss = <<>> THEN <<>> ELSE Head(ss) \o Concat(Tail(ss))

positive_keywords ==
    <<"love", "amazing", "perfect", "great", "best", "beautiful",
      "recommend", "worth", "buy", "purchased", "happy">>

negative_keywords ==
    <<"bad", "terrible", "worst", "poor", "disappointed", "waste",
      "don't buy", "regret", "cheap", "fake", "scam">>

usage_keywords ==
    <<"use", "wear", "tried", "works", "applying", "installed",
      "occasion", "event", "party", "daily", "everyday">>

segment_keywords ==
    <<[name |-> "beginners", keywords |-> <<"first time", "beginner", "new to", "starting">>],
      [name |-> "professionals", keywords |-> <<"professional", "expert", "experienced", "pro">>],
      [name |-> "budget_conscious", keywords |-> <<"cheap", "affordable", "budget", "price">>],
      [name |-> "quality_seekers", keywords |-> <<"quality", "premium", "high-end", "luxury">>]>>

\* comment.get('likes', 0)
likes_of(comments, row) == IF "likes" \in comments.cols THEN row.likes ELSE 0

\* what the loop body finds in one comment, from text_lower
comment_marks(text_lower) ==
    [positive_count |-> Count(positive_keywords, text_lower),
     negative_count |-> Count(negative_keywords, text_lower),
     usage |-> ContainsAny(text_lower, usage_keywords),
     segments |-> {j \in DOMAIN segment_keywords :
                       ContainsAny(text_lower, segment_keywords[j].keywords)}]

\* text.lower() of every row
RECURSIVE lowered(_)
lowered(rows) ==
    IF rows = <<>> THEN <<>> ELSE <<lower(Head(rows).text)>> \o lowered(Tail(rows))

\* the four lists when a comment of equal counts is a candidate of both
categorized_ties(comments, marks) ==
    LET rows == comments.rows
        entry(i, score) ==
            [key |-> <<Frac(score, 1), Frac(likes_of(comments, rows[i]), 1)>>,
             item |-> [text |-> rows[i].text, likes |-> likes_of(comments, rows[i]),
                       score |-> score]]
        buy == Keep([i \in DOMAIN rows |-> entry(i, marks[i].positive_count)],
                    {i \in DOMAIN rows : marks[i].positive_count >= marks[i].negative_count})
        not_buy == Keep([i \in DOMAIN rows |-> entry(i, marks[i].negative_count)],
                        {i \in DOMAIN rows : marks[i].negative_count >= marks[i].positive_count})
        usage == Keep([i \in DOMAIN rows |->
                          [key |-> <<Frac(likes_of(comments, rows[i]), 1)>>,
                           item |-> [text |-> rows[i].text,
                                     likes |-> likes_of(comments, rows[i])]]],
                      {i \in DOMAIN rows : marks[i].usage})
        segments(i) ==
            Keep([j \in DOMAIN segment_keywords |->
                     [segment |-> segment_keywords[j].name, text |-> rows[i].text,
                      likes |-> likes_of(comments, rows[i])]],
                 marks[i].segments)
    IN  [reasons_to_buy |-> head(Items(sorted_reverse(buy)), 10),
         reasons_not_to_buy |-> head(Items(sorted_reverse(not_buy)), 10),
         usage_scenarios |-> head(Items(sorted_reverse(usage)), 10),
         user_segments |-> Concat([i \in DOMAIN rows |-> segments(i)])]

\* the four lists, from the rows' marks
categorized(comments, marks) ==
    LET rows == comments.rows
        entry(i, score) ==
            [key |-> <<Frac(score, 1), Frac(likes_of(comments, rows[i]), 1)>>,
             item |-> [text |-> rows[i].text, likes |-> likes_of(comments, rows[i]),
                       score |-> score]]
        buy == Keep([i \in DOMAIN rows |-> entry(i, marks[i].positive_count)],
                    {i \in DOMAIN rows : marks[i].positive_count > marks[i].negative_count})
        not_buy == Keep([i \in DOMAIN rows |-> entry(i, marks[i].negative_count)],
                        {i \in DOMAIN rows : marks[i].negative_count > marks[i].positive_count})
        usage == Keep([i \in DOMAIN rows |->
                          [key |-> <<Frac(likes_of(comments, rows[i]), 1)>>,
                           item |-> [text |-> rows[i].text,
                                     likes |-> likes_of(comments, rows[i])]]],
                      {i \in DOMAIN rows : marks[i].usage})
        segments(i) ==
            Keep([j \in DOMAIN segment_keywords |->
                     [segment |-> segment_keywords[j].name, text |-> rows[i].text,
                      likes |-> likes_of(comments, rows[i])]],
                 marks[i].segments)
    IN  [reasons_to_buy |-> head(Items(sorted_reverse(buy)), 10),
         reasons_not_to_buy |-> head(Items(sorted_reverse(not_buy)), 10),
         usage_scenarios |-> head(Items(sorted_reverse(usage)), 10),
         user_segments |-> Concat([i \in DOMAIN rows |-> segments(i)])]

categorize_comments(comments) ==
    categorized(comments, [i \in DOMAIN comments.rows |->
                             comment_marks(lowered(comments.rows)[i])])

\* the mentions of one group of keywords among the reviews: a group is a
\* record [name, keywords]
mentions_of(reviews, rows, text_lower, group) ==
    Keep([i \in DOMAIN rows |->
             [text |-> head(rows[i].text, 200), rating |-> rows[i].rating,
              helpful |-> IF "helpful" \in reviews.cols THEN rows[i].helpful ELSE 0]],
         {i \in DOMAIN rows : ContainsAny(text_lower[i], group.keywords)})

factor_keywords ==
    <<[name |-> "quality", keywords |-> <<"quality", "well made", "durable", "sturdy", "solid">>],
      [name |-> "price_value", keywords |-> <<"worth", "value", "price", "affordable", "reasonable">>],
      [name |-> "easy_use", keywords |-> <<"easy", "simple", "convenient", "straightforward", "user-friendly">>],
      [name |-> "performance", keywords |-> <<"works", "performs", "effective", "efficient", "reliable">>],
      [name |-> "appearance", keywords |-> <<"looks", "beautiful", "attractive", "gorgeous", "pretty">>],
      [name |-> "comfort", keywords |-> <<"comfortable", "soft", "cozy", "fit", "smooth">>],
      [name |-> "fast_shipping", keywords |-> <<"fast", "quick", "arrived", "delivery", "shipping">>]>>

pitfall_keywords ==
    <<[name |-> "poor_quality", keywords |-> <<"poor quality", "cheap", "broke", "broken", "fall apart", "defective">>],
      [name |-> "not_as_described", keywords |-> <<"not as described", "misleading", "different", "wrong", "not what">>],
      [name |-> "bad_fit", keywords |-> <<"doesn't fit", "too small", "too large", "wrong size", "uncomfortable">>],
      [name |-> "delivery_issues", keywords |-> <<"late", "damaged", "never arrived", "shipping", "package">>],
      [name |-> "overpriced", keywords |-> <<"overpriced", "too expensive", "not worth", "waste of money">>],
      [name |-> "difficult_use", keywords |-> <<"difficult", "hard to use", "complicated", "confusing">>],
      [name |-> "bad_smell", keywords |-> <<"smell", "odor", "stink", "chemical">>]>>

review_usage_keywords ==
    <<[name |-> "daily_use", keywords |-> <<"daily", "everyday", "regular", "routine">>],
      [name |-> "special_occasions", keywords |-> <<"wedding", "party", "event", "occasion", "celebration">>],
      [name |-> "professional", keywords |-> <<"work", "office", "professional", "business", "meeting">>],
      [name |-> "outdoor", keywords |-> <<"outdoor", "outside", "hiking", "camping", "travel">>],
      [name |-> "home", keywords |-> <<"home", "house", "indoor", "bedroom", "living room">>]>>

\* sorted(mentions, key=lambda x: (x['helpful'], x['rating']), reverse=True)[:3],
\* with -x['rating'] for the pitfalls
top_mentions(mentions, positive) ==
    head(Items(sorted_reverse(
        [m \in DOMAIN mentions |->
            [key |-> <<Frac(mentions[m].helpful, 1),
                       IF positive THEN mentions[m].rating
                       ELSE FMul(Frac(-1, 1), mentions[m].rating)>>,
             item |-> mentions[m]]])), 3)

\* the entry of one group: mention_count is the length of the list cut to 3
factor_entry(name, top) ==
    [key |-> <<Frac(Len(top), 1)>>,
     item |-> [name |-> name, mention_count |-> Len(top), examples |-> top]]

\* the groups with a mention, sorted by mention_count descending, the first 5
top_factors(entries) ==
    head(Items(sorted_reverse(
        Keep(entries, {g \in DOMAIN entries : entries[g].item.examples # <<>>}))), 5)

\* the loop extract_must_have_factors (positive) and extract_critical_pitfalls
\* share, over the rows the rating filter selected
extract_factors(reviews, rows, text_lower, groups, positive) ==
    top_factors([g \in DOMAIN groups |->
                    factor_entry(groups[g].name,
                                 top_mentions(mentions_of(reviews, rows, text_lower, groups[g]),
                                              positive))])

\* the reviews without the rating filter
rated_any(rows, positive) == rows

\* reviews[reviews['rating'] >= 4] resp. reviews[reviews['rating'] <= 2]
rated(rows, positive) ==
    Keep(rows, {i \in DOMAIN rows : IF positive THEN FLe(Frac(4, 1), rows[i].rating)
                                    ELSE FLe(rows[i].rating, Frac(2, 1))})

extract_must_have_factors(reviews) ==
    extract_factors(reviews, rated(reviews.rows, TRUE), lowered(rated(reviews.rows, TRUE)),
                    factor_keywords, TRUE)

extract_critical_pitfalls(reviews) ==
    extract_factors(reviews, rated(reviews.rows, FALSE), lowered(rated(reviews.rows, FALSE)),
                    pitfall_keywords, FALSE)

\* the entries with a mention
top_scenarios(entries) ==
    Keep(entries, {g \in DOMAIN entries : entries[g].item.mention_count > 0})

\* np.mean of a list of floats: NaN when one of them is NaN
FSum(s) ==
    LET F[i \in 0..Len(s)] ==
            IF i = 0 THEN Zero
            ELSE IF IsNaN(F[i - 1]) \/ IsNaN(s[i]) THEN NaN
            ELSE Frac(F[i - 1].n * s[i].d + s[i].n * F[i - 1].d, F[i - 1].d * s[i].d)
    IN  F[Len(s)]

np_mean(s) == FDiv(FSum(s), Frac(Len(s), 1))

\* Series.mean(): the mean of the values that are not NaN
series_mean(s) == np_mean(Keep(s, {i \in DOMAIN s : ~IsNaN(s[i])}))

scenario_entry(name, mentions) ==
    [key |-> <<Frac(Len(mentions), 1)>>,
     item |-> [scenario |-> name, mention_count |-> Len(mentions),
               avg_rating |-> np_mean([m \in DOMAIN mentions |-> mentions[m].rating])]]

scenarios_of(reviews, text_lower) ==
    head(Items(sorted_reverse(top_scenarios(
        [g \in DOMAIN review_usage_keywords |->
            scenario_entry(review_usage_keywords[g].name,
                           mentions_of(reviews, reviews.rows, text_lower,
                                       review_usage_keywords[g]))]))), 5)

extract_usage_scenarios(reviews) == scenarios_of(reviews, lowered(reviews.rows))

\* each regular expression as the list of the strings it matches
need_patterns ==
    <<<<"wish it was", "wish it were", "wish it had",
        "wish there was", "wish there were", "wish there had">>,
      <<"would be better if", "would be nice if", "would be great if">>,
      <<"should have">>,
      <<"need to", "need more", "needs to", "needs more">>,
      <<"missing">>,
      <<"lacking">>,
      <<"could use">>>>

\* re.finditer(pattern, s) from position i on: the matches as pairs
\* <<match.start(), match.end()>>, leftmost first, none overlapping
RECURSIVE finditer(_, _, _)
finditer(alternatives, s, i) ==
    LET at == {k \in i..Len(s) : \E j \in DOMAIN alternatives : StartsAt(s, k, alternatives[j])}
        k == CHOOSE a \in at : \A b \in at : a <= b
        n == Len(alternatives[CHOOSE j \in DOMAIN alternatives : StartsAt(s, k, alternatives[j])])
    IN  IF at = {} THEN <<>>
        ELSE <<<<k - 1, k - 1 + n>>>> \o finditer(alternatives, s, k + n)

\* text[max(0, start - 50):min(len(text), end + 100)].strip()
snippet(text, match) ==
    strip(SubSeq(text,
                 (IF match[1] - 50 < 0 THEN 0 ELSE match[1] - 50) + 1,
                 IF Len(text) < match[2] + 100 THEN Len(text) ELSE match[2] + 100))

snippets(text, matches) == [m \in DOMAIN matches |-> snippet(text, matches[m])]

\* the first five snippets in the order of the reviews, with their counts
most_common_unranked(texts, distinct) ==
    head([t \in DOMAIN distinct |->
             [need |-> distinct[t],
              mention_count |-> Cardinality({i \in DOMAIN texts : texts[i] = distinct[t]})]], 5)

\* Counter(need_texts).most_common(5)
most_common(texts, distinct) ==
    head(Items(sorted_reverse(
        [t \in DOMAIN distinct |->
            [key |-> <<Frac(Cardinality({i \in DOMAIN texts : texts[i] = distinct[t]}), 1)>>,
             item |-> [need |-> distinct[t],
                       mention_count |->
                           Cardinality({i \in DOMAIN texts : texts[i] = distinct[t]})]]])), 5)

\* the snippets of one review, pattern by pattern
review_needs(text, text_lower) ==
    Concat([p \in DOMAIN need_patterns |->
               snippets(text, finditer(need_patterns[p], text_lower, 1))])

need_texts(reviews) ==
    Concat([i \in DOMAIN reviews.rows |->
               review_needs(reviews.rows[i].text, lower(reviews.rows[i].text))])

need_counts(texts) == most_common(texts, FirstSeen(texts))

extract_unmet_needs(reviews) == need_counts(need_texts(reviews))

(***************************************************************************)
(* VOC statistics                                                          *)
(***************************************************************************)
\* one segment's entry: the count and the first two examples (text[:100])
segment_entry(name, items) ==
    [key |-> <<Frac(Len(items), 1)>>,
     item |-> [segment |-> name, mention_count |-> Len(items),
               examples |-> [e \in DOMAIN head(items, 2) |-> head(items[e].text, 100)]]]

\* the user_segments list: the segments in order of first mention, sorted by
\* count, the first 5
user_segments(items, names) ==
    head(Items(sorted_reverse(
        [s \in DOMAIN names |->
            segment_entry(names[s], Keep(items, {i \in DOMAIN items : items[i].segment = names[s]}))])), 5)

\* the comment part of the document, from the categories
comment_document(comments_df, categories) ==
    [total_comments |-> Len(comments_df.rows),
     tiktok_comments |-> Cardinality({i \in DOMAIN comments_df.rows :
                                          comments_df.rows[i].source = "tiktok"}),
     reddit_comments |-> Cardinality({i \in DOMAIN comments_df.rows :
                                          comments_df.rows[i].source = "reddit"}),
     potential_reasons_to_buy |->
         [i \in DOMAIN head(categories.reasons_to_buy, 5) |->
             [reason |-> head(categories.reasons_to_buy[i].text, 150),
              engagement_score |-> categories.reasons_to_buy[i].likes]],
     potential_reasons_not_to_buy |->
         [i \in DOMAIN head(categories.reasons_not_to_buy, 5) |->
             [reason |-> head(categories.reasons_not_to_buy[i].text, 150),
              engagement_score |-> categories.reasons_not_to_buy[i].likes]],
     usage_scenarios |->
         [i \in DOMAIN head(categories.usage_scenarios, 5) |->
             [scenario |-> head(categories.usage_scenarios[i].text, 150),
              engagement_score |-> categories.usage_scenarios[i].likes]],
     user_segments |->
         user_segments(categories.user_segments,
                       FirstSeen([i \in DOMAIN categories.user_segments |->
                                     categories.user_segments[i].segment]))]

\* a column the function indexes is not in the table: KeyError
compute_comment_statistics(comments_df) ==
    IF DfEmpty(comments_df)
    THEN Returned([potential_reasons_to_buy |-> <<>>,
                   potential_reasons_not_to_buy |-> <<>>,
                   usage_scenarios |-> <<>>,
                   user_segments |-> <<>>])
    ELSE IF ~({"text", "source"} \subseteq comments_df.cols) THEN Raised("KeyError")
    ELSE Returned(comment_document(comments_df, categorize_comments(comments_df)))

\* the review part of the document, from the four extractions
review_document(reviews_df, must_haves, pitfalls, scenarios, unmet) ==
    [total_reviews |-> Len(reviews_df.rows),
     amazon_reviews |-> Cardinality({i \in DOMAIN reviews_df.rows :
                                         reviews_df.rows[i].platform = "amazon"}),
     tiktok_reviews |-> Cardinality({i \in DOMAIN reviews_df.rows :
                                         reviews_df.rows[i].platform = "tiktok"}),
     avg_rating |-> series_mean(Column(reviews_df, "rating")),
     must_have_factors |->
         [i \in DOMAIN must_haves |->
             [factor |-> must_haves[i].name,
              mention_count |-> must_haves[i].mention_count,
              top_examples |-> [e \in DOMAIN head(must_haves[i].examples, 2) |->
                                   must_haves[i].examples[e].text]]],
     critical_pitfalls |->
         [i \in DOMAIN pitfalls |->
             [pitfall |-> pitfalls[i].name,
              mention_count |-> pitfalls[i].mention_count,
              top_examples |-> [e \in DOMAIN head(pitfalls[i].examples, 2) |->
                                   pitfalls[i].examples[e].text]]],
     usage_scenarios |-> scenarios,
     unmet_needs |-> unmet]

compute_review_statistics_counted(reviews_df) ==
    IF DfEmpty(reviews_df)
    THEN Returned([total_reviews |-> 0,
                   must_have_factors |-> <<>>,
                   critical_pitfalls |-> <<>>,
                   usage_scenarios |-> <<>>,
                   unmet_needs |-> <<>>])
    ELSE IF ~({"text", "rating", "platform"} \subseteq reviews_df.cols) THEN Raised("KeyError")
    ELSE Returned(review_document(reviews_df,
                      extract_must_have_factors(reviews_df),
                      extract_critical_pitfalls(reviews_df),
                      extract_usage_scenarios(reviews_df),
                      extract_unmet_needs(reviews_df)))

compute_review_statistics(reviews_df) ==
    IF DfEmpty(reviews_df)
    THEN Returned([must_have_factors |-> <<>>,
                   critical_pitfalls |-> <<>>,
                   usage_scenarios |-> <<>>,
                   unmet_needs |-> <<>>])
    ELSE IF ~({"text", "rating", "platform"} \subseteq reviews_df.cols) THEN Raised("KeyError")
    ELSE Returned(review_document(reviews_df,
                      extract_must_have_factors(reviews_df),
                      extract_critical_pitfalls(reviews_df),
                      extract_usage_scenarios(reviews_df),
                      extract_unmet_needs(reviews_df)))

\* list(names)[:3] of a set of factor names: the set's iteration order is the
\* order the process's string hashing gives, here the list hash_order
first_three(names, hash_order) ==
    head(Keep(hash_order, {i \in DOMAIN hash_order : hash_order[i] \in names}), 3)

\* the comparison of two non-empty platform parts
platform_comparison(amazon_reviews, tiktok_reviews, amazon_factors, tiktok_factors, hash_order) ==
    LET sentiment(t) ==
            [positive |-> Cardinality({i \in DOMAIN t.rows : FLe(Frac(4, 1), t.rows[i].rating)}),
             neutral |-> Cardinality({i \in DOMAIN t.rows :
                                          /\ FLe(Frac(3, 1), t.rows[i].rating)
                                          /\ FLt(t.rows[i].rating, Frac(4, 1))}),
             negative |-> Cardinality({i \in DOMAIN t.rows : FLt(t.rows[i].rating, Frac(3, 1))})]
        names(factors) == {factors[i].name : i \in DOMAIN factors}
        amazon_avg == series_mean(Column(amazon_reviews, "rating"))
        tiktok_avg == series_mean(Column(tiktok_reviews, "rating"))
    IN  [rating_comparison |->
             [amazon_avg |-> amazon_avg,
              tiktok_avg |-> tiktok_avg,
              difference |-> FSum(<<amazon_avg, FMul(Frac(-1, 1), tiktok_avg)>>)],
         sentiment_distribution |->
             [amazon |-> sentiment(amazon_reviews), tiktok |-> sentiment(tiktok_reviews)],
         key_differences |->
             [unique_to_amazon |->
                  first_three(names(amazon_factors) \ names(tiktok_factors), hash_order),
              unique_to_tiktok |->
                  first_three(names(tiktok_factors) \ names(amazon_factors), hash_order),
              common_factors |->
                  first_three(names(amazon_factors) \cap names(tiktok_factors), hash_order)]]

\* compare_platforms after compute_review_statistics returned: the columns it
\* indexes are in the table
compare_platforms(reviews_df, hash_order) ==
    LET part(p) == [reviews_df EXCEPT
                        !.rows = Keep(reviews_df.rows,
                                      {i \in DOMAIN reviews_df.rows : reviews_df.rows[i].platform = p})]
    IN  IF DfEmpty(reviews_df) \/ DfEmpty(part("amazon")) \/ DfEmpty(part("tiktok")) THEN EmptyDict
        ELSE platform_comparison(part("amazon"), part("tiktok"),
                                 extract_must_have_factors(part("amazon")),
                                 extract_must_have_factors(part("tiktok")), hash_order)

\* statistics['stage3_reviews']['platform_comparison'] = compare_platforms(reviews_df),
\* reached when compute_review_statistics returned
with_comparison(stage3, comparison) ==
    IF stage3.raised THEN stage3
    ELSE Returned([platform_comparison |-> comparison] @@ stage3.val)

\* the document from the two stages' results
voc_document(stage2, stage3) ==
    IF stage2.raised THEN stage2
    ELSE IF stage3.raised THEN stage3
    ELSE Returned([timestamp |-> "now", stage2_comments |-> stage2.val,
                   stage3_reviews |-> stage3.val])

\* comments_df, reviews_df: <<>> for None, <<table>> for a table
compute_voc_statistics(comments_df, reviews_df, hash_order) ==
    voc_document(
        IF comments_df # <<>> /\ ~DfEmpty(comments_df[1])
        THEN compute_comment_statistics(comments_df[1])
        ELSE Returned([potential_reasons_to_buy |-> <<>>,
                       potential_reasons_not_to_buy |-> <<>>,
                       usage_scenarios |-> <<>>,
                       user_segments |-> <<>>]),
        IF reviews_df # <<>> /\ ~DfEmpty(reviews_df[1])
        THEN with_comparison(compute_review_statistics(reviews_df[1]),
                             compare_platforms(reviews_df[1], hash_order))
        ELSE Returned([must_have_factors |-> <<>>,
                       critical_pitfalls |-> <<>>,
                       usage_scenarios |-> <<>>,
                       unmet_needs |-> <<>>,
                       platform_comparison |-> EmptyDict]))

(***************************************************************************)
(* The comment and review tables of the model                              *)
(***************************************************************************)
CommentCols == {"text", "likes", "source"}
ReviewCols == {"text", "rating", "helpful", "verified", "platform"}

CommentRows ==
    {[text |-> "I love this, best purchase ever!", likes |-> 50, source |-> "tiktok"],
     [text |-> "terrible quality, don't buy", likes |-> 10, source |-> "tiktok"],
     [text |-> "cheap but great for daily use", likes |-> 10, source |-> "reddit"],
     [text |-> "first time buyer, love the premium quality", likes |-> 50, source |-> "reddit"]}

ReviewRows ==
    {[text |-> "great quality, works well and looks pretty", rating |-> Five,
      helpful |-> 2, verified |-> TRUE, platform |-> "amazon"],
     [text |-> "cheap and broke fast, wish it had more hair", rating |-> One,
      helpful |-> 0, verified |-> TRUE, platform |-> "amazon"],
     [text |-> "fast shipping, I wear it to work daily", rating |-> Frac(4, 1),
      helpful |-> 0, verified |-> TRUE, platform |-> "tiktok"],
     [text |-> "overpriced, needs more density, smell is bad", rating |-> Frac(2, 1),
      helpful |-> 2, verified |-> TRUE, platform |-> "tiktok"],
     [text |-> "it is fine for the price", rating |-> Frac(3, 1),
      helpful |-> 0, verified |-> TRUE, platform |-> "amazon"],
     [text |-> "good quality but missing the cap", rating |-> NaN,
      helpful |-> 0, verified |-> TRUE, platform |-> "amazon"]}

\* combine_comments: each table gets the columns text, likes and source it
\* lacks (likes 0, the others ''), then pd.concat(ignore_index=True), which
\* fills the cells of a column one table lacks with NaN
combine_comments(tiktok, reddit) ==
    LET required_cols == {"text", "likes", "source"}
        filled(t) ==
            [cols |-> t.cols \cup required_cols,
             rows |-> [i \in DOMAIN t.rows |->
                          [c \in t.cols \cup required_cols |->
                              IF c \in t.cols THEN t.rows[i][c]
                              ELSE IF c = "likes" THEN 0 ELSE ""]]]
        cols == filled(tiktok).cols \cup filled(reddit).cols
        widened(t) ==
            [i \in DOMAIN t.rows |->
                [c \in cols |-> IF c \in t.cols THEN t.rows[i][c] ELSE NaN]]
    IN  [cols |-> cols, rows |-> widened(filled(tiktok)) \o widened(filled(reddit))]

\* the tables combine_comments makes of a TikTok table (pd.DataFrame() when no
\* file was given) and a Reddit table (without rows as process_reddit_comments
\* returns it for an empty input)
CombinedTables ==
    LET from(source) == {r \in CommentRows : r.source = source}
        tiktok_dfs == {[cols |-> {}, rows |-> <<>>]}
                      \cup {[cols |-> CommentCols, rows |-> <<r>>] : r \in from("tiktok")}
        reddit_dfs == {[cols |-> {"text", "likes", "created_at", "source"}, rows |-> <<>>]}
                      \cup {[cols |-> CommentCols, rows |-> <<r>>] : r \in from("reddit")}
    IN  {<<combine_comments(a, b)>> : a \in tiktok_dfs, b \in reddit_dfs}

\* None, pd.DataFrame(), the tables a comment normalizer returns and the tables
\* combine_comments makes of them
CommentTables ==
    {<<>>, <<[cols |-> {}, rows |-> <<>>]>>}
    \cup {<<[cols |-> CommentCols, rows |-> r]>> :
              r \in UNION {[1..n -> CommentRows] : n \in 0..MaxCommentRows}}
    \cup CombinedTables

\* None, pd.DataFrame(), the tables process_amazon_reviews-shaped rows make, and
\* a table as clean_tiktok_reviews returns it (comment_text, rating, date, sku)
ReviewTables ==
    {<<>>, <<[cols |-> {}, rows |-> <<>>]>>,
     <<[cols |-> {"comment_text", "rating", "date", "sku"},
        rows |-> <<[comment_text |-> "great wig", rating |-> Five, date |-> NaT, sku |-> ""]>>]>>}
    \cup {<<[cols |-> ReviewCols, rows |-> r]>> :
              r \in UNION {[1..n -> ReviewRows] : n \in 0..MaxReviewRows}}

\* the pairs of tables compute_voc_statistics is called on: each kind of one
\* table (None, empty, with rows) with every table of the other
VocInputs ==
    ({c \in CommentTables : c = <<>> \/ Len(c[1].rows) < 2} \X ReviewTables)
    \cup (CommentTables \X {r \in ReviewTables : r = <<>> \/ Len(r[1].rows) < 2})

\* the orders in which a process may iterate a set of factor names
HashOrders ==
    {[i \in DOMAIN factor_keywords |-> factor_keywords[i].name],
     [i \in DOMAIN factor_keywords |-> factor_keywords[Len(factor_keywords) + 1 - i].name]}

(***************************************************************************)
(* compute_market_statistics on two tables                                 *)
(***************************************************************************)
\* runs counts the calls made on the two tables
NoStatistics == [called |-> FALSE, raised |-> FALSE, val |-> EmptyDict, runs |-> 0]
Idle == [fn |-> "idle", raised |-> FALSE, val |-> <<>>]

\* a group of variables that takes no part in the calls of a specification
StatsIdle == df = [cols |-> AllCols, rows |-> <<>>] /\ out = Idle
MarketIdle == amazon_df = <<>> /\ tiktok_df = <<>> /\ statistics = NoStatistics
NormIdle == raw_df = MkRaw(<<>>, <<>>) /\ normalized = Idle
VocIdle == voc_comments_df = <<>> /\ voc_reviews_df = <<>> /\ voc_stats = Idle
TextIdle == raw_text = "" /\ cleaned_text = Idle

InitMarket ==
    /\ amazon_df \in MarketTables
    /\ tiktok_df \in MarketTables
    /\ statistics = NoStatistics
    /\ StatsIdle
    /\ NormIdle
    /\ VocIdle
    /\ TextIdle

\* the number of calls of compute_market_statistics in one behaviour
MaxRuns == 2

CallMarketStatistics ==
    /\ statistics.runs < MaxRuns
    /\ \E r \in {compute_market_statistics(amazon_df, tiktok_df)} :
           /\ statistics' = [called |-> TRUE, raised |-> r.raised, val |-> r.val,
                             runs |-> statistics.runs + 1]
           /\ amazon_df' = r.amazon_df
           /\ tiktok_df' = r.tiktok_df
    /\ UNCHANGED notMarketVars

NextMarket == CallMarketStatistics

SpecMarket == InitMarket /\ [][NextMarket]_vars

(***************************************************************************)
(* Calls of the StatisticsEngine functions on one table                    *)
(***************************************************************************)
NoCall == [fn |-> "none", raised |-> FALSE, val |-> <<>>]

Call(fn, r) == [fn |-> fn, raised |-> r.raised, val |-> r.val]

Init ==
    /\ df \in ListingTables
    /\ out = NoCall
    /\ MarketIdle
    /\ NormIdle
    /\ VocIdle
    /\ TextIdle

CallMarketOverview ==
    /\ out.fn = "none"
    /\ out' = Call("compute_market_overview", Returned(compute_market_overview(df)))
    /\ UNCHANGED <<df, notStatsVars>>

CallCompetitionMetrics ==
    /\ out.fn = "none"
    /\ out' = Call("compute_competition_metrics", Returned(compute_competition_metrics(df)))
    /\ UNCHANGED <<df, notStatsVars>>

CallPriceBands ==
    /\ out.fn = "none"
    /\ out' = Call("compute_price_bands", compute_price_bands(df))
    /\ df' = [df EXCEPT !.cols = price_bands_columns(df)]
    /\ UNCHANGED notStatsVars

CallPriceVsSales ==
    /\ out.fn = "none"
    /\ out' = Call("compute_price_vs_sales_correlation",
                   Returned(compute_price_vs_sales_correlation(df)))
    /\ df' = [df EXCEPT !.cols = price_vs_sales_columns(df)]
    /\ UNCHANGED notStatsVars

CallFeaturePerformance ==
    /\ out.fn = "none"
    /\ out' = Call("extract_feature_performance", Returned(extract_feature_performance(df)))
    /\ UNCHANGED <<df, notStatsVars>>

CallLaunchProfile ==
    /\ out.fn = "none"
    /\ out' = Call("compute_launch_profile", Returned(compute_launch_profile(df)))
    /\ UNCHANGED <<df, notStatsVars>>

CallRatingProfile ==
    /\ out.fn = "none"
    /\ out' = Call("compute_rating_profile", Returned(compute_rating_profile(df)))
    /\ df' = [df EXCEPT !.cols = rating_profile_columns(df)]
    /\ UNCHANGED notStatsVars

Next ==
    \/ CallMarketOverview
    \/ CallCompetitionMetrics
    \/ CallPriceBands
    \/ CallPriceVsSales
    \/ CallFeaturePerformance
    \/ CallLaunchProfile
    \/ CallRatingProfile

Spec == Init /\ [][Next]_vars

(***************************************************************************)
(* Calls of the normalizers on one uploaded table                          *)
(***************************************************************************)
InitNorm ==
    /\ raw_df \in RawTables
    /\ normalized = NoCall
    /\ StatsIdle
    /\ MarketIdle
    /\ VocIdle
    /\ TextIdle

CallCleanAmazonSales ==
    /\ normalized.fn = "none"
    /\ normalized' = Call("clean_amazon_sales", Returned(clean_amazon_sales(raw_df)))
    /\ UNCHANGED <<raw_df, notNormVars>>

CallCleanTiktokSales ==
    /\ normalized.fn = "none"
    /\ normalized' = Call("clean_tiktok_sales", Returned(clean_tiktok_sales(raw_df)))
    /\ UNCHANGED <<raw_df, notNormVars>>

CallProcessTiktokComments ==
    /\ normalized.fn = "none"
    /\ normalized' = Call("process_tiktok_comments", process_tiktok_comments(raw_df))
    /\ UNCHANGED <<raw_df, notNormVars>>

CallProcessRedditComments ==
    /\ normalized.fn = "none"
    /\ normalized' = Call("process_reddit_comments", process_reddit_comments(raw_df))
    /\ UNCHANGED <<raw_df, notNormVars>>

CallProcessAmazonReviews ==
    /\ normalized.fn = "none"
    /\ normalized' = Call("process_amazon_reviews", process_amazon_reviews(raw_df))
    /\ UNCHANGED <<raw_df, notNormVars>>

CallCleanTiktokReviews ==
    /\ normalized.fn = "none"
    /\ normalized' = Call("clean_tiktok_reviews", clean_tiktok_reviews(raw_df))
    /\ UNCHANGED <<raw_df, notNormVars>>

NextNorm ==
    \/ CallCleanAmazonSales
    \/ CallCleanTiktokSales
    \/ CallProcessTiktokComments
    \/ CallProcessRedditComments
    \/ CallProcessAmazonReviews
    \/ CallCleanTiktokReviews

SpecNorm == InitNorm /\ [][NextNorm]_vars

(***************************************************************************)
(* Calls of the VOC statistics functions on a comment and a review table   *)
(***************************************************************************)
InitVoc ==
    /\ \E input \in VocInputs :
           /\ voc_comments_df = input[1]
           /\ voc_reviews_df = input[2]
    /\ voc_stats = NoCall
    /\ StatsIdle
    /\ MarketIdle
    /\ NormIdle
    /\ TextIdle

CallVocStatistics ==
    /\ voc_stats.fn = "none"
    /\ \E hash_order \in HashOrders :
           voc_stats' = Call("compute_voc_statistics",
                       compute_voc_statistics(voc_comments_df, voc_reviews_df, hash_order))
    /\ UNCHANGED <<voc_comments_df, voc_reviews_df, notVocVars>>

\* called with None, the function fails on None.empty
CallCommentStatistics ==
    /\ voc_stats.fn = "none"
    /\ voc_stats' = Call("compute_comment_statistics",
                   IF voc_comments_df = <<>> THEN Raised("AttributeError")
                   ELSE compute_comment_statistics(voc_comments_df[1]))
    /\ UNCHANGED <<voc_comments_df, voc_reviews_df, notVocVars>>

CallReviewStatistics ==
    /\ voc_stats.fn = "none"
    /\ voc_stats' = Call("compute_review_statistics",
                   IF voc_reviews_df = <<>> THEN Raised("AttributeError")
                   ELSE compute_review_statistics(voc_reviews_df[1]))
    /\ UNCHANGED <<voc_comments_df, voc_reviews_df, notVocVars>>

NextVoc ==
    \/ CallVocStatistics
    \/ CallCommentStatistics
    \/ CallReviewStatistics

SpecVoc == InitVoc /\ [][NextVoc]_vars

(***************************************************************************)
(* Claims about the StatisticsEngine functions (specification Spec)        *)
(***************************************************************************)
SalesOf(t) == Column(t, "sales")
PricesOf(t) == Column(t, "price")
CalledOn(fn) == out.fn = fn

RECURSIVE SumCounts(_)
SumCounts(bands) ==
    IF bands = <<>> THEN 0 ELSE Head(bands).product_count + SumCounts(Tail(bands))

\* C2: for every listing table with a price column, compute_price_bands returns
\* bands whose product_count values sum to the row count of the table
\* (one-row tables and tables of equal prices included).
C2_BandCountsSumToRows ==
    (CalledOn("compute_price_bands") /\ "price" \in df.cols)
    => (~out.raised /\ SumCounts(out.val) = Len(df.rows))

\* C3: the returned price bands are contiguous: there is no gap between the
\* reported price_range.max of a band and the price_range.min of the next band.
C3_BandsContiguous ==
    (CalledOn("compute_price_bands") /\ ~out.raised)
    => \A j \in 1..(Len(out.val) - 1) :
           out.val[j + 1].price_range.min <= out.val[j].price_range.max

\* C4: the returned price bands come in increasing band index, no price lies
\* in the reported ranges of two bands, the first band starts at min(price),
\* the last band ends at max(price), and there are at most num_bands bands.
C4_BandsDisjointAndSpan ==
    (CalledOn("compute_price_bands") /\ ~out.raised /\ out.val # <<>>)
    => /\ \A j \in 1..(Len(out.val) - 1) :
              /\ out.val[j].band < out.val[j + 1].band
              /\ out.val[j].price_range.max < out.val[j + 1].price_range.min
       /\ \A j \in DOMAIN out.val : out.val[j].price_range.min <= out.val[j].price_range.max
       /\ out.val[1].price_range.min = SeqMin(PricesOf(df))
       /\ out.val[Len(out.val)].price_range.max = SeqMax(PricesOf(df))
       /\ Len(out.val) <= num_bands

\* three bands or more were returned, one of them holding several prices
C4_Witness ==
    /\ CalledOn("compute_price_bands") /\ ~out.raised /\ Len(out.val) >= 3
    /\ \E j \in DOMAIN out.val : out.val[j].price_range.min < out.val[j].price_range.max

\* C7: every StatisticsEngine function returns (never raises) for every
\* listing table: empty, column-incomplete, one-row, equal prices or sales.
C7_StatisticsNeverRaise == ~out.raised

(***************************************************************************)
(* Claims about compute_market_statistics (specification SpecMarket)       *)
(***************************************************************************)
\* the tables the call was made on have the rows it left them with
BothPresent == ~Skipped(amazon_df) /\ ~Skipped(tiktok_df)

\* C8: the document compute_market_statistics returns holds the key
\* cross_platform exactly when both tables are given and non-empty; the block
\* then holds volume_comparison, price_comparison and rating_comparison with
\* one value per platform; with one platform only the key is absent.
C8_CrossPlatformIffBoth ==
    (statistics.called /\ ~statistics.raised)
    => /\ ("cross_platform" \in DOMAIN statistics.val) <=> BothPresent
       /\ BothPresent =>
            /\ DOMAIN statistics.val.cross_platform
                   = {"volume_comparison", "price_comparison", "rating_comparison"}
            /\ DOMAIN statistics.val.cross_platform.price_comparison = {"amazon_avg", "tiktok_avg"}
            /\ DOMAIN statistics.val.cross_platform.rating_comparison = {"amazon_avg", "tiktok_avg"}
            /\ statistics.val.cross_platform.volume_comparison.amazon_products = Len(amazon_df[1].rows)
            /\ statistics.val.cross_platform.volume_comparison.tiktok_products = Len(tiktok_df[1].rows)
       /\ DOMAIN statistics.val.platforms
              = {x \in {"amazon"} : ~Skipped(amazon_df)} \cup {x \in {"tiktok"} : ~Skipped(tiktok_df)}

\* a document with both platforms and the cross_platform block
C8_Witness ==
    /\ statistics.called /\ ~statistics.raised
    /\ "cross_platform" \in DOMAIN statistics.val
    /\ DOMAIN statistics.val.platforms = {"amazon", "tiktok"}

\* a document of one platform, returned without the key
C8_WitnessOne ==
    /\ statistics.called /\ ~statistics.raised
    /\ DOMAIN statistics.val.platforms = {"tiktok"}
    /\ "cross_platform" \notin DOMAIN statistics.val


\* C5: in the table a normalizer that carries a rating returns, every row's
\* rating lies in [0, 5], whatever the raw rating was.
C5_RatingInRange ==
    (/\ normalized.fn \in {"clean_amazon_sales", "clean_tiktok_sales",
                           "process_amazon_reviews", "clean_tiktok_reviews"}
     /\ ~normalized.raised
     /\ "rating" \in normalized.val.cols)
    => \A i \in DOMAIN normalized.val.rows :
           /\ FLe(Zero, normalized.val.rows[i]["rating"])
           /\ FLe(normalized.val.rows[i]["rating"], Five)

\* the required text column of the uploaded table resolves for no alias
TextUnresolved ==
    CASE normalized.fn = "process_tiktok_comments" ->
             "text" \notin DOMAIN detect_tiktok_comment_columns(raw_df)
      [] normalized.fn = "process_reddit_comments" -> "text" \notin raw_df.cols
      [] normalized.fn = "process_amazon_reviews" ->
             "text" \notin DOMAIN detect_amazon_review_columns(raw_df)
      [] normalized.fn = "clean_tiktok_reviews" ->
             first_match(raw_df.columns, COLUMN_ALIASES.comment_text) = {}
      [] OTHER -> FALSE

\* C10: when the required text column of a comment or review table resolves
\* for no alias, the normalizer fails with SchemaError, not with ValueError
\* or KeyError.
C10_MissingTextIsSchemaError ==
    TextUnresolved => (normalized.raised /\ normalized.val = "SchemaError")

(***************************************************************************)
(* Claims about the VOC statistics (specification SpecVoc)                 *)
(***************************************************************************)
\* C6: for every combination of inputs (None, empty or non-empty tables) the
\* document compute_voc_statistics returns has the same keys: stage2_comments
\* holds total_comments and the four lists, stage3_reviews holds
\* total_reviews, avg_rating, the four lists and platform_comparison.
C6_VocDocumentKeys ==
    (voc_stats.fn = "compute_voc_statistics" /\ ~voc_stats.raised)
    => /\ {"timestamp", "stage2_comments", "stage3_reviews"} \subseteq DOMAIN voc_stats.val
       /\ {"total_comments", "potential_reasons_to_buy", "potential_reasons_not_to_buy",
           "usage_scenarios", "user_segments"} \subseteq DOMAIN voc_stats.val.stage2_comments
       /\ {"total_reviews", "avg_rating", "must_have_factors", "critical_pitfalls",
           "usage_scenarios", "unmet_needs", "platform_comparison"}
              \subseteq DOMAIN voc_stats.val.stage3_reviews

\* compute_review_statistics was called on a reviews table without rows
ReviewStatisticsOfEmpty ==
    /\ voc_stats.fn = "compute_review_statistics"
    /\ voc_reviews_df # <<>>
    /\ DfEmpty(voc_reviews_df[1])

\* C9: called on an empty reviews table, compute_review_statistics returns the
\* document of exactly the four keys must_have_factors, critical_pitfalls,
\* usage_scenarios and unmet_needs, each an empty list.
C9_EmptyReviewsFourKeys ==
    ReviewStatisticsOfEmpty
    => /\ ~voc_stats.raised
       /\ voc_stats.val = [must_have_factors |-> <<>>, critical_pitfalls |-> <<>>,
                     usage_scenarios |-> <<>>, unmet_needs |-> <<>>]

\* the call on a table with the review columns and no row has returned
C9_Witness ==
    /\ ReviewStatisticsOfEmpty
    /\ voc_reviews_df[1].cols = ReviewCols
    /\ ~voc_stats.raised
    /\ DOMAIN voc_stats.val = {"must_have_factors", "critical_pitfalls",
                         "usage_scenarios", "unmet_needs"}

(***************************************************************************)
(* Claims about the normalizers (specification SpecNorm), continued        *)
(***************************************************************************)
\* C11: a normalizer aborts only when its required text column does not
\* resolve: on every other table (an empty one, one with unparsable numbers
\* or dates, one without the optional columns) it returns and raises nothing.
C11_AbortsOnlyOnUnresolved ==
    (normalized.fn \notin {"none", "idle"} /\ ~TextUnresolved) => ~normalized.raised

(***************************************************************************)
(* Claims about compute_market_statistics (specification SpecMarket),      *)
(* continued                                                               *)
(***************************************************************************)
\* the table d alone yields a platform block: it is processed and none of its
\* stage functions fails
YieldsBlock(d) == ~Skipped(d) /\ ~platform_statistics(d[1]).raised

\* the returned document holds the block of the platform
HasBlock(platform) ==
    /\ ~statistics.raised
    /\ platform \in DOMAIN statistics.val.platforms

\* C12: a failure while one platform's statistics are computed does not keep
\* the other platform's block from being computed and returned: whenever a
\* table alone yields its block, the document of the call holds that block,
\* whatever the other table is.
C12_PlatformsIndependent ==
    statistics.called
    => /\ YieldsBlock(amazon_df) => HasBlock("amazon")
       /\ YieldsBlock(tiktok_df) => HasBlock("tiktok")

(***************************************************************************)
(* Claims about the classification (specification SpecVoc)                 *)
(***************************************************************************)
\* compute_voc_statistics returned the document of a reviews table with rows
VocOfReviews ==
    /\ voc_stats.fn = "compute_voc_statistics"
    /\ ~voc_stats.raised
    /\ voc_reviews_df # <<>>
    /\ ~DfEmpty(voc_reviews_df[1])

\* C13: classification is deterministic: the comparison compare_platforms
\* returns for a table, the order of unique_to_amazon, unique_to_tiktok and
\* common_factors included, is the same in every process run, that is, under
\* every order in which a run may iterate a set of factor names.
C13_ComparisonDeterministic ==
    VocOfReviews
    => \A hash_order \in HashOrders :
           voc_stats.val.stage3_reviews.platform_comparison
               = compare_platforms(voc_reviews_df[1], hash_order)

(***************************************************************************)
(* Calls of the classification functions on one normalized table           *)
(***************************************************************************)
\* a table of four reviews of the same text and rating
RepeatedReviewTables ==
    {<<[cols |-> ReviewCols, rows |-> [i \in 1..4 |-> r]]>> : r \in ReviewRows}

\* ten reviews that state seven needs, two of them twice and one in a text
\* longer than the window a snippet is cut from
UnmetNeedTexts ==
    <<"I wore this wig to a summer wedding and danced in it for hours, it would be nice if the box came with a stand because the curls lose their shape in a drawer, but the hair itself is soft, thick and has kept its colour after three washes so far",
      "I wore this wig to a summer wedding and danced in it for hours, it would be nice if the box came with a stand because the curls lose their shape in a drawer, but the hair itself is soft, thick and has kept its colour after three washes so far",
      "wish it had a comb", "should have a cap", "should have a cap",
      "needs more density", "missing the band", "lacking a strap",
      "could use more hair", "could use more hair">>

UnmetNeedReviews ==
    <<[cols |-> ReviewCols,
       rows |-> [i \in DOMAIN UnmetNeedTexts |->
                    [text |-> UnmetNeedTexts[i], rating |-> Five, helpful |-> 0,
                     verified |-> TRUE, platform |-> "amazon"]]]>>

\* the tables with the canonical columns: comments for categorize_comments,
\* reviews for the four extract_* functions
ClassifyInputs ==
    ({c \in CommentTables : c # <<>> /\ c[1].cols = CommentCols} \X {<<>>})
    \cup ({<<>>} \X {r \in ReviewTables : r # <<>> /\ r[1].cols = ReviewCols})
    \cup ({<<>>} \X RepeatedReviewTables)
    \cup ({<<>>} \X {UnmetNeedReviews})

InitClassify ==
    /\ \E input \in ClassifyInputs :
           /\ voc_comments_df = input[1]
           /\ voc_reviews_df = input[2]
    /\ voc_stats = NoCall
    /\ StatsIdle
    /\ MarketIdle
    /\ NormIdle
    /\ TextIdle

CallCategorizeComments ==
    /\ voc_stats.fn = "none"
    /\ voc_comments_df # <<>>
    /\ voc_stats' = Call("categorize_comments",
                         Returned(categorize_comments(voc_comments_df[1])))
    /\ UNCHANGED <<voc_comments_df, voc_reviews_df, notVocVars>>

CallExtractMustHaveFactors ==
    /\ voc_stats.fn = "none"
    /\ voc_reviews_df # <<>>
    /\ voc_stats' = Call("extract_must_have_factors",
                         Returned(extract_must_have_factors(voc_reviews_df[1])))
    /\ UNCHANGED <<voc_comments_df, voc_reviews_df, notVocVars>>

CallExtractCriticalPitfalls ==
    /\ voc_stats.fn = "none"
    /\ voc_reviews_df # <<>>
    /\ voc_stats' = Call("extract_critical_pitfalls",
                         Returned(extract_critical_pitfalls(voc_reviews_df[1])))
    /\ UNCHANGED <<voc_comments_df, voc_reviews_df, notVocVars>>

CallExtractUsageScenarios ==
    /\ voc_stats.fn = "none"
    /\ voc_reviews_df # <<>>
    /\ voc_stats' = Call("extract_usage_scenarios",
                         Returned(extract_usage_scenarios(voc_reviews_df[1])))
    /\ UNCHANGED <<voc_comments_df, voc_reviews_df, notVocVars>>

CallExtractUnmetNeeds ==
    /\ voc_stats.fn = "none"
    /\ voc_reviews_df # <<>>
    /\ voc_stats' = Call("extract_unmet_needs",
                         Returned(extract_unmet_needs(voc_reviews_df[1])))
    /\ UNCHANGED <<voc_comments_df, voc_reviews_df, notVocVars>>

NextClassify ==
    \/ CallCategorizeComments
    \/ CallExtractMustHaveFactors
    \/ CallExtractCriticalPitfalls
    \/ CallExtractUsageScenarios
    \/ CallExtractUnmetNeeds

SpecClassify == InitClassify /\ [][NextClassify]_vars

(***************************************************************************)
(* Claims about the classification functions (specification SpecClassify)  *)
(***************************************************************************)
\* the table with its rows in the order p, a permutation of the row numbers
Reordered(t, p) == [t EXCEPT !.rows = [i \in DOMAIN t.rows |-> t.rows[p[i]]]]
RowOrders(t) == Permutations(DOMAIN t.rows)

\* C14: the ranked lists a classification function returns for a table are
\* the lists it returns for the same rows in any other order: reasons to buy
\* and not to buy of categorize_comments, and the results of
\* extract_must_have_factors, extract_critical_pitfalls and extract_unmet_needs
C14_RankedOrderIndependent ==
    /\ voc_stats.fn = "categorize_comments"
       => \A p \in RowOrders(voc_comments_df[1]) :
              LET other == categorize_comments(Reordered(voc_comments_df[1], p))
              IN  /\ other.reasons_to_buy = voc_stats.val.reasons_to_buy
                  /\ other.reasons_not_to_buy = voc_stats.val.reasons_not_to_buy
    /\ voc_stats.fn = "extract_must_have_factors"
       => \A p \in RowOrders(voc_reviews_df[1]) :
              extract_must_have_factors(Reordered(voc_reviews_df[1], p)) = voc_stats.val
    /\ voc_stats.fn = "extract_critical_pitfalls"
       => \A p \in RowOrders(voc_reviews_df[1]) :
              extract_critical_pitfalls(Reordered(voc_reviews_df[1], p)) = voc_stats.val
    /\ voc_stats.fn = "extract_unmet_needs"
       => \A p \in RowOrders(voc_reviews_df[1]) :
              extract_unmet_needs(Reordered(voc_reviews_df[1], p)) = voc_stats.val

TextsOf(entries) == {entries[k].text : k \in DOMAIN entries}
PositiveHits(row) == Count(positive_keywords, lower(row.text))
NegativeHits(row) == Count(negative_keywords, lower(row.text))

\* C15: after categorize_comments, a comment is among the reasons to buy
\* exactly when it has strictly more positive than negative keyword hits,
\* among the reasons not to buy exactly when it has strictly more negative
\* hits, in neither list when the counts are equal, and never in both; each
\* candidate is listed once
C15_CandidateIffStrictlyMore ==
    voc_stats.fn = "categorize_comments"
    => LET rows == voc_comments_df[1].rows
           buy == voc_stats.val.reasons_to_buy
           not_buy == voc_stats.val.reasons_not_to_buy
       IN  /\ \A i \in DOMAIN rows :
                  /\ rows[i].text \in TextsOf(buy)
                         <=> PositiveHits(rows[i]) > NegativeHits(rows[i])
                  /\ rows[i].text \in TextsOf(not_buy)
                         <=> NegativeHits(rows[i]) > PositiveHits(rows[i])
                  /\ ~(rows[i].text \in TextsOf(buy) /\ rows[i].text \in TextsOf(not_buy))
           /\ Len(buy) = Cardinality({i \in DOMAIN rows :
                                         PositiveHits(rows[i]) > NegativeHits(rows[i])})
           /\ Len(not_buy) = Cardinality({i \in DOMAIN rows :
                                             NegativeHits(rows[i]) > PositiveHits(rows[i])})

\* a comment with one positive and one negative hit next to a net-positive one
C15_Witness ==
    /\ voc_stats.fn = "categorize_comments"
    /\ \E i \in DOMAIN voc_comments_df[1].rows :
           /\ PositiveHits(voc_comments_df[1].rows[i]) = 1
           /\ NegativeHits(voc_comments_df[1].rows[i]) = 1
    /\ Len(voc_stats.val.reasons_to_buy) = 1
    /\ voc_stats.val.reasons_not_to_buy = <<>>

\* the reviews of the table whose number is in S, in their order
Only(t, S) == [t EXCEPT !.rows = Keep(t.rows, S)]
AtLeastFour(t) == {i \in DOMAIN t.rows : FLe(Frac(4, 1), t.rows[i].rating)}
AtMostTwo(t) == {i \in DOMAIN t.rows : FLe(t.rows[i].rating, Frac(2, 1))}
ExamplesOf(factors) ==
    UNION {{factors[g].examples[k] : k \in DOMAIN factors[g].examples} : g \in DOMAIN factors}

\* C16: every example of extract_must_have_factors has rating >= 4 and every
\* example of extract_critical_pitfalls has rating <= 2, and the reviews of
\* any other rating, a missing one included, contribute nothing: the result is
\* the result for the table without them
C16_OnlyRatedReviewsCount ==
    /\ voc_stats.fn = "extract_must_have_factors"
       => /\ \A e \in ExamplesOf(voc_stats.val) : FLe(Frac(4, 1), e.rating)
          /\ voc_stats.val
                 = extract_must_have_factors(Only(voc_reviews_df[1],
                                                  AtLeastFour(voc_reviews_df[1])))
    /\ voc_stats.fn = "extract_critical_pitfalls"
       => /\ \A e \in ExamplesOf(voc_stats.val) : FLe(e.rating, Frac(2, 1))
          /\ voc_stats.val
                 = extract_critical_pitfalls(Only(voc_reviews_df[1],
                                                  AtMostTwo(voc_reviews_df[1])))

\* must-have factors of a table with a review of rating >= 4 and a review of
\* missing rating that names a factor
C16_Witness ==
    /\ voc_stats.fn = "extract_must_have_factors"
    /\ voc_stats.val # <<>>
    /\ \E i \in DOMAIN voc_reviews_df[1].rows :
           /\ voc_reviews_df[1].rows[i].rating = NaN
           /\ ContainsAny(lower(voc_reviews_df[1].rows[i].text), factor_keywords[1].keywords)

(***************************************************************************)
(* Calls of the schema resolvers on an uploaded table                      *)
(***************************************************************************)
\* a column label is written as a string; the label pd.read_excel gives a
\* numeric header cell, an int, is written with a leading #
is_str(label) == ~StartsAt(label, 1, "#")

\* {col.lower(): col for col in df.columns} and the lookup that follows: a
\* label that is no str has no lower()
df_columns_lower(t, mapping) ==
    IF \E i \in DOMAIN t.columns : ~is_str(t.columns[i]) THEN Raised("AttributeError")
    ELSE Returned(mapping)

\* the uploaded tables, and the tables of a sheet whose header has a year
ResolveTables ==
    RawTables
    \cup {MkRaw(<<"title", "#2024">>, rows) :
              rows \in UNION {[1..n -> {RawRow(<<"title", "#2024">>, x, y) :
                                            x \in TextCells, y \in NumberCells}] :
                                  n \in 0..MaxRawRows}}

InitResolve ==
    /\ raw_df \in ResolveTables
    /\ normalized = NoCall
    /\ StatsIdle
    /\ MarketIdle
    /\ VocIdle
    /\ TextIdle

CallDetectAmazonColumns ==
    /\ normalized.fn = "none"
    /\ normalized' = Call("detect_amazon_columns",
                          df_columns_lower(raw_df, detect_amazon_columns(raw_df)))
    /\ UNCHANGED <<raw_df, notNormVars>>

CallDetectTiktokColumns ==
    /\ normalized.fn = "none"
    /\ normalized' = Call("detect_tiktok_columns",
                          df_columns_lower(raw_df, detect_tiktok_columns(raw_df)))
    /\ UNCHANGED <<raw_df, notNormVars>>

CallDetectAmazonReviewColumns ==
    /\ normalized.fn = "none"
    /\ normalized' = Call("detect_amazon_review_columns",
                          df_columns_lower(raw_df, detect_amazon_review_columns(raw_df)))
    /\ UNCHANGED <<raw_df, notNormVars>>

CallDetectTiktokCommentColumns ==
    /\ normalized.fn = "none"
    /\ normalized' = Call("detect_tiktok_comment_columns",
                          Returned(detect_tiktok_comment_columns(raw_df)))
    /\ UNCHANGED <<raw_df, notNormVars>>

\* _first_match(list(raw_df.columns), COLUMN_ALIASES[field])
CallFirstMatch ==
    /\ normalized.fn = "none"
    /\ \E field \in DOMAIN COLUMN_ALIASES :
           normalized' = Call("_first_match",
                              Returned([field |-> field,
                                        match |-> first_match(raw_df.columns,
                                                              COLUMN_ALIASES[field])]))
    /\ UNCHANGED <<raw_df, notNormVars>>

NextResolve ==
    \/ CallDetectAmazonColumns
    \/ CallDetectTiktokColumns
    \/ CallDetectAmazonReviewColumns
    \/ CallDetectTiktokCommentColumns
    \/ CallFirstMatch

SpecResolve == InitResolve /\ [][NextResolve]_vars

(***************************************************************************)
(* Claims about the schema resolvers (specification SpecResolve)           *)
(***************************************************************************)
Labels(t) == {t.columns[i] : i \in DOMAIN t.columns}
Detectors ==
    {"detect_amazon_columns", "detect_tiktok_columns",
     "detect_amazon_review_columns", "detect_tiktok_comment_columns"}

\* C17: a schema resolver never raises; every field a detector maps is mapped
\* to a column of the table; and _first_match returns the first alias, in the
\* declared order, that is a column of the table, or nothing when none is
C17_ResolversNeverRaise ==
    /\ normalized.fn \in Detectors \cup {"_first_match"} => ~normalized.raised
    /\ (normalized.fn \in Detectors /\ ~normalized.raised)
       => \A f \in DOMAIN normalized.val : normalized.val[f] \in Labels(raw_df)
    /\ normalized.fn = "_first_match"
       => LET aliases == COLUMN_ALIASES[normalized.val.field]
              present == {j \in DOMAIN aliases : aliases[j] \in Labels(raw_df)}
          IN  /\ present = {} <=> normalized.val.match = {}
              /\ \A j \in present :
                     (\A h \in present : j <= h) => normalized.val.match = {aliases[j]}

(***************************************************************************)
(* Claims about the normalizers' tables (specification SpecNorm)           *)
(***************************************************************************)
NumericFields == {"price", "sales", "revenue", "likes", "helpful", "rating"}

\* the upvotes process_reddit_comments copies are numbers or missing values
UpvotesAreFloats ==
    "upvotes" \in raw_df.cols
    => \A i \in DOMAIN raw_df.rows : raw_df.rows[i]["upvotes"].k # "str"

\* C18: in the table a normalizer returns, each of price, sales, revenue,
\* likes, helpful and rating that the table has holds a number in every row,
\* never NaN (for process_reddit_comments: when no upvotes cell is a string)
C18_NumericFieldsHoldNumbers ==
    (/\ normalized.fn \notin {"none", "idle"}
     /\ ~normalized.raised
     /\ normalized.fn = "process_reddit_comments" => UpvotesAreFloats)
    => \A i \in DOMAIN normalized.val.rows :
           \A c \in NumericFields \cap normalized.val.cols :
               ~IsNaN(normalized.val.rows[i][c])

\* the columns the identifier and the title of the uploaded table resolve to
KeyColumns ==
    LET mapping == IF normalized.fn = "clean_amazon_sales" THEN detect_amazon_columns(raw_df)
                   ELSE detect_tiktok_columns(raw_df)
    IN  {mapping[f] : f \in {"product_id", "title"} \cap DOMAIN mapping}

\* the rows of the uploaded table with a value in each of them
RowsWithKeys ==
    {i \in DOMAIN raw_df.rows : \A c \in KeyColumns : raw_df.rows[i][c].k # "nan"}

\* C19: the table clean_amazon_sales or clean_tiktok_sales returns has one row
\* for each source row whose resolved identifier and title are both present,
\* and no row for a source row in which one of them is missing
C19_DropsRowsWithoutKeys ==
    (/\ normalized.fn \in {"clean_amazon_sales", "clean_tiktok_sales"}
     /\ ~normalized.raised)
    => Len(normalized.val.rows) = Cardinality(RowsWithKeys)

\* C20: every row of the table process_tiktok_comments or
\* process_reddit_comments returns has a text of at least 5 characters with a
\* letter or a digit in it and with none of the spam phrases in its lower case
C20_CommentRowsAreValid ==
    (/\ normalized.fn \in {"process_tiktok_comments", "process_reddit_comments"}
     /\ ~normalized.raised)
    => \A i \in DOMAIN normalized.val.rows :
           LET text == normalized.val.rows[i]["text"]
           IN  /\ Len(text) >= 5
               /\ \E k \in 1..Len(text) : CharAt(text, k) \in Letters \cup Digits
               /\ ~ContainsAny(lower(text),
                               <<"follow me", "check out my", "click link", "dm me">>)

\* the column of the uploaded table the rating resolves to, as a set
RatingColumn ==
    LET mapping == IF normalized.fn = "clean_tiktok_sales" THEN detect_tiktok_columns(raw_df)
                   ELSE detect_amazon_review_columns(raw_df)
    IN  {mapping[f] : f \in {"rating"} \cap DOMAIN mapping}

\* C21: in the table clean_tiktok_sales or process_amazon_reviews returns with
\* a row for every source row, a rating that is a number of at most 5 in the
\* source is the rating of the returned row, whatever the other rows hold
C21_RatingsUpToFiveUnchanged ==
    (/\ normalized.fn \in {"clean_tiktok_sales", "process_amazon_reviews"}
     /\ ~normalized.raised
     /\ Len(normalized.val.rows) = Len(raw_df.rows))
    => \A c \in RatingColumn : \A i \in DOMAIN raw_df.rows :
           (raw_df.rows[i][c].k = "num" /\ raw_df.rows[i][c].n <= 5)
           => normalized.val.rows[i]["rating"] = Frac(raw_df.rows[i][c].n, 1)

\* C22: a call of a StatisticsEngine function leaves the table it was given
\* as it was: the same columns and the same cells after the call as before
C22_InputTableUnchanged == [][df' = df]_vars

\* C23: a call of compute_market_statistics on tables an earlier call has
\* been made on ends as that call did: it raises when that one raised, and
\* returns the same platforms and cross_platform blocks when it returned
C23_LaterRunsAgree ==
    [][statistics.called
       => /\ statistics'.raised = statistics.raised
          /\ statistics'.val = statistics.val]_vars

\* a second call on two tables to which the first call added its columns
C23_Witness ==
    /\ statistics.runs = 2
    /\ ~statistics.raised
    /\ DOMAIN statistics.val.platforms = {"amazon", "tiktok"}
    /\ "price_band" \in amazon_df[1].cols
    /\ "rating_category" \in tiktok_df[1].cols

\* the keywords of the group (factor or pitfall) of that name
KeywordsOf(groups, name) ==
    groups[CHOOSE j \in DOMAIN groups : groups[j].name = name].keywords

\* the reviews among those numbered in S whose lower-case text names the group
Mentioning(t, S, keywords) ==
    {i \in S : ContainsAny(lower(t.rows[i].text), keywords)}

\* at most 5 entries of at most 3 examples, in non-increasing order of
\* mention_count, each count the number of the rated reviews naming the group
CountsMentions(factors, groups, t, S) ==
    /\ Len(factors) <= 5
    /\ \A g \in DOMAIN factors :
           /\ Len(factors[g].examples) <= 3
           /\ factors[g].mention_count
                  = Cardinality(Mentioning(t, S, KeywordsOf(groups, factors[g].name)))
           /\ g > 1 => factors[g - 1].mention_count >= factors[g].mention_count

\* C24: the mention_count of every factor extract_must_have_factors returns
\* is the number of reviews of rating >= 4 that name the factor, and of every
\* pitfall extract_critical_pitfalls returns the number of reviews of rating
\* <= 2 that name it; a factor has at most 3 examples, and the at most 5
\* factors are in non-increasing order of mention_count
C24_MentionCountIsNumberOfReviews ==
    /\ voc_stats.fn = "extract_must_have_factors"
       => CountsMentions(voc_stats.val, factor_keywords, voc_reviews_df[1],
                         AtLeastFour(voc_reviews_df[1]))
    /\ voc_stats.fn = "extract_critical_pitfalls"
       => CountsMentions(voc_stats.val, pitfall_keywords, voc_reviews_df[1],
                         AtMostTwo(voc_reviews_df[1]))

\* C25: the rating profile of a table with a rating counts every row in one
\* band (the product_count values sum to the row count), every sales_share is
\* a number in [0, 1], the shares sum to 1 when the table's sales are above 0,
\* and review_to_sales_ratio is total reviews / total sales, 0 without sales
C25_RatingProfileShares ==
    (CalledOn("compute_rating_profile") /\ ~out.raised /\ "rating" \in df.cols
     /\ df.rows # <<>>)
    => LET dist == out.val.rating_distribution
           total_sales == ColumnOrZero(df, df.rows, "sales")
       IN  /\ SumCounts(dist) = Len(df.rows)
           /\ \A j \in DOMAIN dist :
                  /\ ~IsNaN(dist[j].sales_share)
                  /\ FLe(Zero, dist[j].sales_share)
                  /\ FLe(dist[j].sales_share, One)
           /\ total_sales > 0
              => FSum([j \in DOMAIN dist |-> dist[j].sales_share]) = One
           /\ ("reviews" \in df.cols /\ "sales" \in df.cols)
              => out.val.review_to_sales_ratio
                     = IF total_sales > 0
                       THEN Frac(ColumnOrZero(df, df.rows, "reviews"), total_sales)
                       ELSE Zero

\* the matches of the need patterns in the reviews: <<review, pattern, match>>
NeedMatches(t) ==
    UNION {UNION {{<<i, p, m>> :
                      m \in DOMAIN finditer(need_patterns[p], lower(t.rows[i].text), 1)} :
                  p \in DOMAIN need_patterns} :
           i \in DOMAIN t.rows}

\* the text from 50 characters before the match to 100 after it, stripped
Window(t, x) ==
    LET text == t.rows[x[1]].text
        match == finditer(need_patterns[x[2]], lower(text), 1)[x[3]]
        from == IF match[1] < 50 THEN 0 ELSE match[1] - 50
        to == IF match[2] + 100 > Len(text) THEN Len(text) ELSE match[2] + 100
    IN  strip(SubSeq(text, from + 1, to))

\* the entries are the most frequent windows with their numbers of matches
MostFrequentWindows(needs, windows) ==
    LET count(s) == Cardinality({x \in DOMAIN windows : windows[x] = s})
        distinct == {windows[x] : x \in DOMAIN windows}
        returned == {needs[g].need : g \in DOMAIN needs}
    IN  /\ Len(needs) = (IF Cardinality(distinct) < 5 THEN Cardinality(distinct) ELSE 5)
        /\ Cardinality(returned) = Len(needs)
        /\ returned \subseteq distinct
        /\ \A g \in DOMAIN needs :
               /\ needs[g].mention_count = count(needs[g].need)
               /\ g > 1 => needs[g - 1].mention_count >= needs[g].mention_count
               /\ \A s \in distinct \ returned : count(s) <= needs[g].mention_count

\* C26: extract_unmet_needs returns at most 5 entries in non-increasing order
\* of mention_count; the mention_count of an entry is the number of pattern
\* matches whose window (50 characters before the match to 100 after it,
\* clipped and stripped) is the entry's text, and no window left out has more
\* matches than a returned one
C26_UnmetNeedsMostFrequent ==
    voc_stats.fn = "extract_unmet_needs"
    => MostFrequentWindows(voc_stats.val,
                           [x \in NeedMatches(voc_reviews_df[1]) |->
                               Window(voc_reviews_df[1], x)])

\* the ten reviews of seven needs: five entries, the first a window cut out of
\* the long review, with two matches
C26_Witness ==
    /\ voc_stats.fn = "extract_unmet_needs"
    /\ voc_reviews_df = UnmetNeedReviews
    /\ Len(voc_stats.val) = 5
    /\ voc_stats.val[1].mention_count = 2
    /\ Len(voc_stats.val[1].need) < Len(UnmetNeedTexts[1])
    /\ voc_stats.val[5].mention_count = 1

(***************************************************************************)
(* extract_feature_performance on listings whose sales are not whole        *)
(***************************************************************************)
\* sales as clean_amazon_sales leaves them for a source column of floats
FloatSales == {Frac(0, 1), Frac(1, 2), Frac(3, 2), Frac(2, 1)}

FloatRows == {[MkRow(p, 0) EXCEPT !.sales = s] : p \in PriceValues, s \in FloatSales}

\* the rows of the tables with float sales
MaxFloatRows == 2

FloatTables ==
    {[cols |-> AllCols, rows |-> r, floats |-> {"sales"}] :
        r \in UNION {[1..k -> FloatRows] : k \in 0..MaxFloatRows}}

InitFeatures ==
    /\ df \in FloatTables
    /\ out = NoCall
    /\ MarketIdle
    /\ NormIdle
    /\ VocIdle
    /\ TextIdle

NextFeatures == CallFeaturePerformance

SpecFeatures == InitFeatures /\ [][NextFeatures]_vars

\* the tags the title of row i yields
TagsOfRow(i) ==
    LET features == extract_features_from_title(df.rows[i].title)
    IN  {features[j] : j \in DOMAIN features}

\* the rows whose title yields the tag written feature_type=value
RowsYielding(feature) ==
    {i \in DOMAIN df.rows : \E tag \in TagsOfRow(i) : tag[1] \o "=" \o tag[2] = feature}

RECURSIVE SalesOver(_)
SalesOver(S) ==
    IF S = {} THEN Frac(0, 1)
    ELSE LET i == CHOOSE x \in S : TRUE
             rest == SalesOver(S \ {i})
             s == RowFloat(df, df.rows[i], "sales")
         IN  Frac(s.n * rest.d + rest.n * s.d, s.d * rest.d)

\* C27: extract_feature_performance returns at most 20 entries in
\* non-increasing order of total_sales; the entry of a tag counts the rows whose
\* title yields the tag and totals their sales; a title yields at most one
\* value of a feature type, and 'Lace Front Wig 20 inch' yields
\* lace_type=lace_front and length=20
C27_FeatureEntriesAggregateRows ==
    CalledOn("extract_feature_performance") =>
        /\ Len(out.val) <= TopFeatures
        /\ \A i \in 1..(Len(out.val) - 1) : out.val[i].total_sales >= out.val[i + 1].total_sales
        /\ \A i \in DOMAIN out.val :
               /\ out.val[i].product_count = Cardinality(RowsYielding(out.val[i].feature))
               /\ Frac(out.val[i].total_sales, 1) = SalesOver(RowsYielding(out.val[i].feature))
        /\ \A i \in DOMAIN df.rows :
               \A a \in TagsOfRow(i), b \in TagsOfRow(i) : a[1] = b[1] => a = b
        /\ {<<"lace_type", "lace_front">>, <<"length", "20">>}
               \subseteq {extract_features_from_title("Lace Front Wig 20 inch")[j] :
                             j \in DOMAIN extract_features_from_title("Lace Front Wig 20 inch")}

\* the feature totals on whole sales only
C27_WholeSales ==
    (\A i \in DOMAIN df.rows : RowFloat(df, df.rows[i], "sales").d = 1)
        => C27_FeatureEntriesAggregateRows

\* C28: on a comment table with rows, compute_comment_statistics reports
\* tiktok_comments + reddit_comments = total_comments, and on a review table
\* with rows compute_review_statistics reports
\* amazon_reviews + tiktok_reviews = total_reviews
C28_SourceCountsConserved ==
    /\ (/\ voc_stats.fn = "compute_comment_statistics"
        /\ voc_comments_df # <<>>
        /\ ~DfEmpty(voc_comments_df[1]))
           => /\ ~voc_stats.raised
              /\ voc_stats.val.tiktok_comments + voc_stats.val.reddit_comments
                     = voc_stats.val.total_comments
    /\ (/\ voc_stats.fn = "compute_review_statistics"
        /\ voc_reviews_df # <<>>
        /\ ~DfEmpty(voc_reviews_df[1]))
           => /\ ~voc_stats.raised
              /\ voc_stats.val.amazon_reviews + voc_stats.val.tiktok_reviews
                     = voc_stats.val.total_reviews

\* the comment half of C28, and the review half on the tables that have the
\* platform column
C28_OnTaggedTables ==
    /\ (/\ voc_stats.fn = "compute_comment_statistics"
        /\ voc_comments_df # <<>>
        /\ ~DfEmpty(voc_comments_df[1]))
           => /\ ~voc_stats.raised
              /\ voc_stats.val.tiktok_comments + voc_stats.val.reddit_comments
                     = voc_stats.val.total_comments
    /\ (/\ voc_stats.fn = "compute_review_statistics"
        /\ voc_reviews_df # <<>>
        /\ ~DfEmpty(voc_reviews_df[1])
        /\ "platform" \in voc_reviews_df[1].cols)
           => /\ ~voc_stats.raised
              /\ voc_stats.val.amazon_reviews + voc_stats.val.tiktok_reviews
                     = voc_stats.val.total_reviews

(***************************************************************************)
(* Calls of the three text cleaners on one string                          *)
(***************************************************************************)
\* the strings of at most n characters of the alphabet
RECURSIVE TextsOver(_, _)
TextsOver(alphabet, n) ==
    IF n = 0 THEN {""}
    ELSE LET shorter == TextsOver(alphabet, n - 1)
         IN  shorter \cup {c \o t : c \in alphabet, t \in shorter}

\* the longest comment, Reddit and review texts
MaxCommentTextLen == 4
MaxRedditTextLen == 5
MaxReviewTextLen == 6

CleanerTexts ==
    TextsOver({"@", "#", "a", " ", "^"}, MaxCommentTextLen)
    \cup TextsOver({"/", "u", "*", " "}, MaxRedditTextLen)
    \cup TextsOver({"w", "!", " "}, MaxReviewTextLen)

InitClean ==
    /\ raw_text \in CleanerTexts
    /\ cleaned_text = NoCall
    /\ StatsIdle
    /\ MarketIdle
    /\ NormIdle
    /\ VocIdle

CallCleanCommentText ==
    /\ cleaned_text.fn = "none"
    /\ cleaned_text' = Call("clean_comment_text", Returned(clean_comment_text(raw_text)))
    /\ UNCHANGED <<raw_text, notTextVars>>

CallCleanRedditText ==
    /\ cleaned_text.fn = "none"
    /\ cleaned_text' = Call("clean_reddit_text", Returned(clean_reddit_text(raw_text)))
    /\ UNCHANGED <<raw_text, notTextVars>>

CallCleanReviewText ==
    /\ cleaned_text.fn = "none"
    /\ cleaned_text' = Call("clean_review_text", Returned(clean_review_text(raw_text)))
    /\ UNCHANGED <<raw_text, notTextVars>>

NextClean ==
    \/ CallCleanCommentText
    \/ CallCleanRedditText
    \/ CallCleanReviewText

SpecClean == InitClean /\ [][NextClean]_vars

\* a character of S directly followed by a word character
FollowedByWord(s, S) ==
    \E i \in 1..(Len(s) - 1) : CharAt(s, i) \in S /\ CharAt(s, i + 1) \in WordChars

\* no leading, trailing or repeated whitespace
WhitespaceNormal(s) ==
    /\ s = "" \/ (CharAt(s, 1) \notin Whitespace /\ CharAt(s, Len(s)) \notin Whitespace)
    /\ \A i \in 1..(Len(s) - 1) :
           ~(CharAt(s, i) \in Whitespace /\ CharAt(s, i + 1) \in Whitespace)

\* C29: cleaning a cleaned text again changes nothing, for each of the three
\* cleaners, and a text clean_comment_text returns has no '@'-mention, no '#'
\* directly followed by a word character, no astral character and no leading,
\* trailing or repeated whitespace
C29_CleaningIdempotentAndComplete ==
    /\ cleaned_text.fn = "clean_comment_text" =>
           /\ clean_comment_text(cleaned_text.val) = cleaned_text.val
           /\ ~FollowedByWord(cleaned_text.val, {"@"})
           /\ ~FollowedByWord(cleaned_text.val, {"#"})
           /\ \A i \in 1..Len(cleaned_text.val) : CharAt(cleaned_text.val, i) \notin Astral
           /\ WhitespaceNormal(cleaned_text.val)
    /\ cleaned_text.fn = "clean_reddit_text" =>
           clean_reddit_text(cleaned_text.val) = cleaned_text.val
    /\ cleaned_text.fn = "clean_review_text" =>
           clean_review_text(cleaned_text.val) = cleaned_text.val

\* what the cleaners do guarantee: no astral character after
\* clean_comment_text and normal whitespace after each of the three
C29_WhitespaceAndAstral ==
    cleaned_text.fn \notin {"none", "idle"} =>
        /\ WhitespaceNormal(cleaned_text.val)
        /\ cleaned_text.fn = "clean_comment_text" =>
               \A i \in 1..Len(cleaned_text.val) : CharAt(cleaned_text.val, i) \notin Astral

\* each cleaner alone is idempotent
C29_CommentIdempotent ==
    cleaned_text.fn = "clean_comment_text" =>
        clean_comment_text(cleaned_text.val) = cleaned_text.val
C29_RedditIdempotent ==
    cleaned_text.fn = "clean_reddit_text" =>
        clean_reddit_text(cleaned_text.val) = cleaned_text.val
C29_ReviewIdempotent ==
    cleaned_text.fn = "clean_review_text" =>
        clean_review_text(cleaned_text.val) = cleaned_text.val

(***************************************************************************)
(* compute_competition_metrics on listings whose sales are not whole       *)
(***************************************************************************)
\* sales as a source column of floats gives them
MetricSales == {Frac(0, 1), Frac(1, 10), Frac(1, 2), Frac(7, 10)}

MetricRows == {[MkRow(p, 0) EXCEPT !.sales = s] : p \in {1, 3}, s \in MetricSales}

\* the rows of the tables with float sales handed to compute_competition_metrics
MaxMetricRows == 3

\* canonical tables of a source without a seller column
MetricTables ==
    {[cols |-> AllCols \ {"seller"}, rows |-> r, floats |-> {"sales"}] :
        r \in UNION {[1..k -> MetricRows] : k \in 0..MaxMetricRows}}

InitFloatMetrics ==
    /\ df \in MetricTables
    /\ out = NoCall
    /\ MarketIdle
    /\ NormIdle
    /\ VocIdle
    /\ TextIdle

NextFloatMetrics == CallCompetitionMetrics

SpecFloatMetrics == InitFloatMetrics /\ [][NextFloatMetrics]_vars

\* the least exponent of the floats of xs
RECURSIVE LowestExponent(_)
LowestExponent(xs) ==
    IF Len(xs) = 1 THEN xs[1].e
    ELSE IF xs[1].e < LowestExponent(Tail(xs)) THEN xs[1].e ELSE LowestExponent(Tail(xs))

\* the sum of the floats of xs, as the exact number of units 2^to
RECURSIVE ExactSum(_, _)
ExactSum(xs, to) ==
    IF xs = <<>> THEN <<>> ELSE BigAdd(Aligned(xs[1], to), ExactSum(Tail(xs), to))

BelowTotal(xs, to, total) ==
    {i \in DOMAIN xs : BigLt(MulSmall(Aligned(xs[i], to), Len(xs)), total)}

BelowMeanAt(xs, to) == BelowTotal(xs, to, ExactSum(xs, to))

\* the rows whose sales are strictly below the mean of the sales:
\* x * n < sum, without rounding
BelowMean(xs) == BelowMeanAt(xs, LowestExponent(xs))

\* C30: on a table with rows, long_tail_index is the number of rows whose sales
\* are strictly below the mean of the sales, divided by the number of rows; it
\* is at least 0 and below 1, and 0 when all rows have the same sales
C30_LongTailIndex ==
    (CalledOn("compute_competition_metrics") /\ df.rows # <<>>) =>
        /\ out.val.long_tail_index = Frac(Cardinality(BelowMean(FloatColumn(df.rows, "sales"))), Len(df.rows))
        /\ FLe(Zero, out.val.long_tail_index)
        /\ FLt(out.val.long_tail_index, One)
        /\ (\A i \in DOMAIN df.rows : df.rows[i].sales = df.rows[1].sales)
               => out.val.long_tail_index = Zero

\* C30 on the tables of whole sales, where no float64 operation rounds
C30_OnWholeSales ==
    (CalledOn("compute_competition_metrics") /\ df.rows # <<>> /\ "sales" \in df.cols) =>
        LET sales == Column(df, "sales")
            below == {i \in DOMAIN sales : sales[i] * Len(sales) < SumSeq(sales)}
        IN  /\ out.val.long_tail_index = Frac(Cardinality(below), Len(sales))
            /\ FLe(Zero, out.val.long_tail_index)
            /\ FLt(out.val.long_tail_index, One)
            /\ (\A i \in DOMAIN sales : sales[i] = sales[1])
                   => out.val.long_tail_index = Zero

====
